---- MODULE Spec2Model ----
(***************************************************************************)
(* Document pipeline driver and quiz orchestrator of lynki-backend.        *)
(*                                                                         *)
(* One run of ExtractionService.process_document is modelled as a task     *)
(* whose position pc is the operation it is awaiting.  Every action is the *)
(* completion of the awaited operation together with the synchronous code  *)
(* that follows it up to the next await.  The store (Supabase) is reached  *)
(* through run_db_operation, which hands the blocking call to a thread     *)
(* pool: a call whose awaiting task is cancelled by the 600 s deadline     *)
(* keeps running in its thread and may still land later.                   *)
(***************************************************************************)
EXTENDS Integers, Sequences, FiniteSets

\* ---------------------------------------------------------------- bounds
\* Largest number of Concept rows the analysis of one document produces.
MaxConcepts == 4
\* Largest number of questions one generation unit returns.
MaxQuestions == 2
\* Largest number of store operations that fail in one run.
MaxStoreFailures == 1
\* Largest number of chunks the text of a document is split into.
MaxChunks == 2
\* Largest number of characters of a model response.
MaxResponseLen == 4
\* Largest number of options in the parsed response of the question model.
MaxOptions == 5
\* Largest min_questions and max_questions of a generation unit.
MaxPerConcept == 7
\* Largest num_questions of a generation unit followed slot by slot.
MaxSlots == 3
\* Largest number of characters of a text handed to _chunk_text.
MaxTextLen == 7
\* Largest number of topics in the parsed response of the analysis model.
MaxTopics == 2
\* Largest number of concepts under one topic of a parsed response.
MaxTopicConcepts == 2

\* ------------------------------------------------------- program constants
MAX_CONCURRENT_GENERATIONS == 3
MAX_API_RETRIES == 2
\* max_retries of _generate_single_question
max_retries == 2
\* The least length of an extracted text the driver goes on with.
MIN_TEXT_LENGTH == 50

VARIABLES
    pc,                  \* operation the process_document task is awaiting
    err,                 \* error message the failure handler is writing
    docStatus,           \* documents.status ("absent": no such row)
    docError,            \* documents.error_message
    docText,             \* documents.extracted_text has been persisted
    nConcepts,           \* Concept rows under the Document's Topics
    quizStatus,          \* quizzes.generation_status ("none": no Quiz row)
    questions,           \* Question rows of the quiz, in the order they landed
    ust,                 \* generation unit of each concept: waiting/running/done
    ures,                \* number of questions a unit returned (0: failure marker)
    ci,                  \* index of the result being persisted
    qi,                  \* enumerate() index i inside _save_questions
    saved_count,         \* saved_count of the running _save_questions call
    current_order_index, \* current_order_index of generate_quiz_for_document
    total_questions,     \* total_questions of generate_quiz_for_document
    qret,                \* what generate_quiz_for_document returned
    orphan,              \* store write of the cancelled task still in the pool
    cancelledAt,         \* pc at which the deadline cancelled the task
    failures,            \* store operations that have failed in this run
    extracted_text,      \* len(extracted_text.strip()) of step 4 (0: none yet)
    \* AnalysisService.analyze_document
    apc,                 \* operation the analysis is awaiting
    total_chunks,        \* len(chunks)
    chunk_index,         \* chunk_index of the running _process_chunk call
    attempt,             \* attempt of the running _process_chunk call
    events,              \* what happened to the current chunk, in order
    results,             \* how each finished chunk ended: saved or skipped
    \* QuizGenerationService._save_questions, one question
    spc,                 \* step of the handling of the question
    question_data,       \* is_correct of each option of the parsed response
    question,            \* GeneratedQuestion.options
    options_list,        \* options_list after random.shuffle
    question_row,        \* the questions row inserted for the question
    option_rows,         \* the question_options rows inserted for it
    \* AnalysisService._extract_and_clean_json, one call
    response_text,       \* the text of the model response
    extracted,           \* what the call returned or raised
    parsed,              \* json_str of _parse_question_response, or its error
    \* QuestionGenerator: one parsed response through the two checks
    candidate,           \* question_data of the parsed response
    verdict,             \* accepted, or rejected (the attempt goes on)
    \* QuestionGenerator: one generation unit (process_concept)
    gpc,                 \* step of the unit
    content_length,      \* len(source_text) + len(concept_explanation)
    min_questions,       \* min_questions of calculate_questions_per_concept
    max_questions,       \* max_questions of calculate_questions_per_concept
    num_questions,       \* num_questions of generate_questions_for_concept
    difficulties,        \* difficulties of generate_questions_for_concept
    slot,                \* i of the loop over difficulties
    gattempt,            \* attempt of the running _generate_single_question
    generated,           \* questions of generate_questions_for_concept
    glog,                \* what happened to the current slot, in order
    \* AnalysisService._chunk_text, one call
    full_text,           \* text
    chunk_size,          \* chunk_size
    chunks,              \* what the call returned
    \* AnalysisService._save_structure, row by row
    topics_table,        \* the rows of table topics of the document
    concepts_table,      \* the rows of table concepts under those topics
    llm_logs,            \* the rows of table llm_logs of the document
    tasks                \* the analyze_document calls running on the document

storeVars == <<docStatus, docError, docText, quizStatus, questions>>
quizVars  == <<ust, ures, ci, qi, saved_count, current_order_index,
               total_questions, qret>>
analysisVars == <<apc, total_chunks, chunk_index, attempt, events, results>>
saveVars  == <<spc, question_data, question, options_list, question_row,
               option_rows>>
jsonVars  == <<response_text, extracted, parsed>>
qualityVars == <<candidate, verdict>>
genVars   == <<gpc, content_length, min_questions, max_questions,
               num_questions, difficulties, slot, gattempt, generated, glog>>
chunkVars == <<full_text, chunk_size, chunks>>
\* The variables of the single calls of pure functions and of one
\* generation unit.
functionVars == <<jsonVars, qualityVars, genVars, chunkVars>>
structVars == <<topics_table, concepts_table, llm_logs, tasks>>
\* The variables of the procedures that are modelled step by step on their
\* own, outside the run of the driver.
procVars  == <<analysisVars, saveVars, functionVars, structVars>>
\* The variables a step of the driver leaves alone, its step 4 excepted.
auxVars   == <<extracted_text, procVars>>
vars == <<pc, err, docStatus, docError, docText, nConcepts, quizStatus,
          questions, ust, ures, ci, qi, saved_count, current_order_index,
          total_questions, qret, orphan, cancelledAt, failures, auxVars>>

\* Awaits of _process_document_internal before the quiz orchestrator.
DriverPcs == {"fetch", "set_processing", "download", "extract", "save_text",
              "analyze", "count", "set_completed", "fail_inner"}
\* Awaits of generate_quiz_for_document.
QuizPcs == {"q_get_doc", "q_get_concepts", "q_create", "q_set_generating",
            "fanout", "save_q", "save_o", "q_set_final"}
\* Everything that runs inside asyncio.wait_for.
InnerPcs == DriverPcs \cup QuizPcs

timedOut == cancelledAt # "none"

\* ------------------------------------------------------------- the store
\* A store write: op names the call, s and e its status and error_message,
\* c and k the concept and order_index (or row number) of a question write.
Write(op, s, e, c, k) == [op |-> op, s |-> s, e |-> e, c |-> c, k |-> k]
NoWrite == Write("none", "", "", 0, 0)

\* User-facing messages written with status failed.
MsgNotFound   == "Document not found in database"
MsgDownload   == "Failed to download file from storage"
MsgExtraction == "Text extraction failed"
MsgShort      == "Extracted text is too short or empty"
MsgAnalysis   == "AI analysis failed"
MsgNoConcepts == "No concepts could be extracted from the document"
MsgTimeout    == "Processing timed out"
MsgUnexpected == "An unexpected error occurred during processing"

\* _update_status_with_error(document_id, "failed", message)
FailedWrite(message) == Write("doc_status_error", "failed", message, 0, 0)

\* The row a questions insert creates; its options are inserted afterwards.
QuestionRow(c, k) == [concept |-> c, order_index |-> k, nopts |-> 0]

\* The store after write w has landed.  An update of a row that does not
\* exist changes nothing.
DocStatusAfter(w) ==
    IF docStatus # "absent" /\ w.op \in {"doc_status", "doc_status_error"}
    THEN w.s ELSE docStatus
DocErrorAfter(w) ==
    IF docStatus # "absent" /\ w.op = "doc_status_error" THEN w.e ELSE docError
\* The same store if the update that records a failure also reset the text.
DocTextAfter_ClearedByFailure(w) ==
    IF docStatus # "absent" /\ w.op = "doc_text" THEN TRUE
    ELSE IF w.op = "doc_status_error" /\ w.s = "failed" THEN FALSE
    ELSE docText
DocTextAfter(w) ==
    IF docStatus # "absent" /\ w.op = "doc_text" THEN TRUE ELSE docText
QuizStatusAfter(w) ==
    IF w.op = "quiz_insert" THEN "pending"
    ELSE IF w.op = "quiz_status" /\ quizStatus # "none" THEN w.s
    ELSE quizStatus
QuestionsAfter(w) ==
    IF w.op = "question_insert" THEN Append(questions, QuestionRow(w.c, w.k))
    ELSE IF w.op = "options_insert" /\ w.k \in DOMAIN questions
         THEN [questions EXCEPT ![w.k].nopts = 4]
    ELSE questions

ApplyWrite(w) ==
    /\ docStatus' = DocStatusAfter(w)
    /\ docError' = DocErrorAfter(w)
    /\ docText' = DocTextAfter(w)
    /\ quizStatus' = QuizStatusAfter(w)
    /\ questions' = QuestionsAfter(w)

\* The final generation_status generate_quiz_for_document writes.
FinalQuizStatus == IF total_questions > 0 THEN "completed" ELSE "failed"

\* The store write the task is awaiting at pc (NoWrite at a read or a
\* completion call).
PendingWrite ==
    CASE pc = "set_processing"   -> Write("doc_status", "processing", "", 0, 0)
      [] pc = "save_text"        -> Write("doc_text", "", "", 0, 0)
      [] pc = "set_completed"    -> Write("doc_status_error", "completed", "none", 0, 0)
      [] pc = "fail_inner"       -> FailedWrite(err)
      [] pc = "fail_outer"       -> FailedWrite(err)
      [] pc = "q_create"         -> Write("quiz_insert", "pending", "", 0, 0)
      [] pc = "q_set_generating" -> Write("quiz_status", "generating", "", 0, 0)
      [] pc = "save_q"           -> Write("question_insert", "", "", ci,
                                          current_order_index + qi)
      [] pc = "save_o"           -> Write("options_insert", "", "", ci,
                                          Len(questions))
      [] pc = "q_set_final"      -> Write("quiz_status", FinalQuizStatus, "", 0, 0)
      [] OTHER                   -> NoWrite

\* run_db_operation: the call returns, or raises (at most MaxStoreFailures
\* times in a run).
StoreOk == failures' = failures
StoreFails == failures < MaxStoreFailures /\ failures' = failures + 1

\* ------------------------------------------------------------------ Init
\* No analysis is being followed step by step.
AnalysisIdle ==
    /\ apc = "idle"
    /\ total_chunks = 0
    /\ chunk_index = 0
    /\ attempt = 0
    /\ events = << >>
    /\ results = << >>

\* No question is being followed through _save_questions.
SaveIdle ==
    /\ spc = "idle"
    /\ question_data = << >>
    /\ question = << >>
    /\ options_list = << >>
    /\ question_row = << >>
    /\ option_rows = << >>

\* No call of _extract_and_clean_json is being followed.
NotCalled == <<"not called">>
JsonIdle ==
    /\ response_text = << >>
    /\ extracted = NotCalled
    /\ parsed = NotCalled

\* No parsed response is being checked.
QualityIdle ==
    /\ candidate = << >>
    /\ verdict = "none"

\* No generation unit is being followed step by step.
GenIdle ==
    /\ gpc = "idle"
    /\ content_length = 0
    /\ min_questions = 0
    /\ max_questions = 0
    /\ num_questions = 0
    /\ difficulties = << >>
    /\ slot = 0
    /\ gattempt = 0
    /\ generated = << >>
    /\ glog = << >>

\* No call of _chunk_text is being followed.
NotChunked == <<NotCalled>>
ChunkIdle ==
    /\ full_text = << >>
    /\ chunk_size = 0
    /\ chunks = NotChunked

\* No _save_structure call is being followed row by row.
StructIdle ==
    /\ topics_table = << >>
    /\ concepts_table = << >>
    /\ llm_logs = << >>
    /\ tasks = << >>

\* A document uploaded and not yet processed; the state every single call
\* below is followed in.
RunInit ==
    /\ StructIdle
    /\ pc = "fetch"
    /\ err = "none"
    /\ docStatus = "pending"
    /\ docError = "none"
    /\ docText = FALSE
    /\ nConcepts = 0
    /\ quizStatus = "none"
    /\ questions = << >>
    /\ ust = << >>
    /\ ures = << >>
    /\ ci = 0
    /\ qi = 0
    /\ saved_count = 0
    /\ current_order_index = 0
    /\ total_questions = 0
    /\ qret = "none"
    /\ orphan = NoWrite
    /\ cancelledAt = "none"
    /\ failures = 0
    /\ extracted_text = 0

Init ==
    /\ pc = "fetch"
    /\ err = "none"
    /\ docStatus \in {"pending", "absent"}
    /\ docError = "none"
    /\ docText = FALSE
    /\ nConcepts = 0
    /\ quizStatus = "none"
    /\ questions = << >>
    /\ ust = << >>
    /\ ures = << >>
    /\ ci = 0
    /\ qi = 0
    /\ saved_count = 0
    /\ current_order_index = 0
    /\ total_questions = 0
    /\ qret = "none"
    /\ orphan = NoWrite
    /\ cancelledAt = "none"
    /\ failures = 0
    /\ extracted_text = 0
    /\ AnalysisIdle
    /\ SaveIdle
    /\ JsonIdle /\ QualityIdle /\ GenIdle /\ ChunkIdle /\ StructIdle

\* ------------------------------------------- _process_document_internal
\* raise ValueError(message): caught at line 162, which writes failed.
RaiseValueError(message) == pc' = "fail_inner" /\ err' = message
\* Any other exception leaves the inner task and is caught at line 50.
RaiseUnexpected == pc' = "fail_outer" /\ err' = MsgUnexpected

\* 1. Get document metadata.
FetchDocument ==
    /\ pc = "fetch"
    /\ \/ docStatus # "absent" /\ StoreOk
          /\ pc' = "set_processing" /\ UNCHANGED err
       \/ docStatus = "absent" /\ StoreOk /\ RaiseValueError(MsgNotFound)
       \/ docStatus = "absent" /\ StoreOk /\ RaiseUnexpected
       \/ StoreFails /\ RaiseUnexpected
    /\ UNCHANGED <<storeVars, quizVars, nConcepts, orphan, cancelledAt>>
    /\ UNCHANGED auxVars

\* 2. Update status to processing.
SetProcessing ==
    /\ pc = "set_processing"
    /\ \/ StoreOk /\ ApplyWrite(PendingWrite)
          /\ pc' = "download" /\ UNCHANGED err
       \/ StoreFails /\ RaiseUnexpected /\ UNCHANGED storeVars
    /\ UNCHANGED <<quizVars, nConcepts, orphan, cancelledAt>>
    /\ UNCHANGED auxVars

\* 3. Download file.  A missing file_path or file_type raises ValueError on
\* the same path as a failed download.
Download ==
    /\ pc = "download"
    /\ \/ pc' = "extract" /\ UNCHANGED err
       \/ RaiseValueError(MsgDownload)
    /\ UNCHANGED <<storeVars, quizVars, nConcepts, orphan, cancelledAt, failures>>
    /\ UNCHANGED auxVars

\* The lengths of the text _extract_text returns (it returns text.strip()).
TextLengths == {0, MIN_TEXT_LENGTH - 1, MIN_TEXT_LENGTH}

\* The same check one character too lenient.
TooShort_OneLess(length) == length < MIN_TEXT_LENGTH - 1

\* not extracted_text or len(extracted_text.strip()) < 50
TooShort(length) == length < MIN_TEXT_LENGTH

\* 4. Extract text in the default executor and check its length.
ExtractText ==
    /\ pc = "extract"
    /\ \/ \E length \in TextLengths :
             /\ extracted_text' = length
             /\ IF TooShort(length)
                THEN RaiseValueError(MsgShort)
                ELSE pc' = "save_text" /\ UNCHANGED err
       \/ RaiseValueError(MsgExtraction) /\ UNCHANGED extracted_text
       \/ RaiseUnexpected /\ UNCHANGED extracted_text
    /\ UNCHANGED <<storeVars, quizVars, nConcepts, orphan, cancelledAt, failures>>
    /\ UNCHANGED procVars

\* Save extracted text immediately.
SaveText ==
    /\ pc = "save_text"
    /\ \/ StoreOk /\ ApplyWrite(PendingWrite)
          /\ pc' = "analyze" /\ UNCHANGED err
       \/ StoreFails /\ RaiseUnexpected /\ UNCHANGED storeVars
    /\ UNCHANGED <<quizVars, nConcepts, orphan, cancelledAt>>
    /\ UNCHANGED auxVars

\* 5. Extract structure: the analysis inserts Concept rows, n being their
\* number after it, and returns, or raises after having inserted them.
Analyze ==
    /\ pc = "analyze"
    /\ \E n \in nConcepts..MaxConcepts :
          /\ nConcepts' = n
          /\ \/ pc' = "count" /\ UNCHANGED err
             \/ RaiseValueError(MsgAnalysis)
    /\ UNCHANGED <<storeVars, quizVars, orphan, cancelledAt, failures>>
    /\ UNCHANGED auxVars

\* _count_document_concepts returns 0 when a store call raises.
CountConcepts ==
    /\ pc = "count"
    /\ \/ StoreOk /\ nConcepts > 0 /\ pc' = "set_completed" /\ UNCHANGED err
       \/ StoreOk /\ nConcepts = 0 /\ RaiseValueError(MsgNoConcepts)
       \/ StoreFails /\ RaiseValueError(MsgNoConcepts)
    /\ UNCHANGED <<storeVars, quizVars, nConcepts, orphan, cancelledAt>>
    /\ UNCHANGED auxVars

\* 6. Mark document as completed before quiz generation; 7. start the quiz
\* orchestrator when the document has a user_id.
SetCompleted ==
    /\ pc = "set_completed"
    /\ \/ StoreOk /\ ApplyWrite(PendingWrite)
          /\ pc' \in {"q_get_doc", "done"} /\ UNCHANGED err
       \/ StoreFails /\ RaiseUnexpected /\ UNCHANGED storeVars
    /\ UNCHANGED <<quizVars, nConcepts, orphan, cancelledAt>>
    /\ UNCHANGED auxVars

\* except ValueError (and the not-found return): write failed with the
\* message; _update_status_with_error swallows a store failure.
WriteFailedInner ==
    /\ pc = "fail_inner"
    /\ \/ StoreOk /\ ApplyWrite(PendingWrite)
       \/ StoreFails /\ UNCHANGED storeVars
    /\ pc' = "done"
    /\ UNCHANGED <<err, quizVars, nConcepts, orphan, cancelledAt>>
    /\ UNCHANGED auxVars

\* ------------------------------------------- generate_quiz_for_document
\* Every callee of the try block (lines 47-154) catches Exception itself:
\* _get_document, _get_document_concepts, _create_quiz, _update_quiz_status,
\* the body of process_concept and each iteration of _save_questions.  The
\* except Exception handler at lines 156-163 is therefore not entered by a
\* store or completion failure, and it does not catch the CancelledError of
\* the deadline, which is not an Exception.
\* return None out of generate_quiz_for_document: the driver logs a warning
\* and _process_document_internal ends.
ReturnNone == qret' = "null" /\ pc' = "done"

NumUnits == Len(ust)
Running == Cardinality({c \in DOMAIN ust : ust[c] = "running"})

\* asyncio.Semaphore(MAX_CONCURRENT_GENERATIONS): a unit enters the
\* async with block only while fewer than the limit hold the semaphore.
SemaphoreFree_NoLimit == TRUE
SemaphoreFree == Running < MAX_CONCURRENT_GENERATIONS

\* asyncio.gather(*tasks) returns when every task has returned.
GatherReady_FirstReturned == \E c \in DOMAIN ust : ust[c] = "done"
GatherReady_AllStarted == \A c \in DOMAIN ust : ust[c] # "waiting"
GatherReady == \A c \in DOMAIN ust : ust[c] = "done"

\* The loop over results: the first result at or after position i that
\* carries questions (a failure marker is only logged).
NextResult(i) ==
    IF \E j \in i..NumUnits : ures[j] > 0
    THEN CHOOSE j \in i..NumUnits :
             ures[j] > 0 /\ \A m \in i..(j - 1) : ures[m] = 0
    ELSE NumUnits + 1

\* generate_quiz_for_document going on whatever the status of the document.
QGetDocument_AnyStatus ==
    /\ pc = "q_get_doc"
    /\ \/ StoreOk /\ pc' = "q_get_concepts" /\ UNCHANGED qret
       \/ StoreFails /\ ReturnNone
    /\ UNCHANGED <<err, storeVars, nConcepts, orphan, cancelledAt, ust, ures,
                   ci, qi, saved_count, current_order_index, total_questions>>
    /\ UNCHANGED auxVars

\* 1. Verify document exists and is completed.
QGetDocument ==
    /\ pc = "q_get_doc"
    /\ \/ StoreOk
          /\ IF docStatus = "completed"
             THEN pc' = "q_get_concepts" /\ UNCHANGED qret
             ELSE ReturnNone
       \/ StoreFails /\ ReturnNone
    /\ UNCHANGED <<err, storeVars, nConcepts, orphan, cancelledAt, ust, ures,
                   ci, qi, saved_count, current_order_index, total_questions>>
    /\ UNCHANGED auxVars

\* 2. Get all concepts for this document.
QGetConcepts ==
    /\ pc = "q_get_concepts"
    /\ \/ StoreOk
          /\ IF nConcepts > 0
             THEN pc' = "q_create" /\ UNCHANGED qret
             ELSE ReturnNone
       \/ StoreFails /\ ReturnNone
    /\ UNCHANGED <<err, storeVars, nConcepts, orphan, cancelledAt, ust, ures,
                   ci, qi, saved_count, current_order_index, total_questions>>
    /\ UNCHANGED auxVars

\* 3. Create quiz record with generation_status pending.
QCreateQuiz ==
    /\ pc = "q_create"
    /\ \/ StoreOk /\ ApplyWrite(PendingWrite)
          /\ pc' = "q_set_generating" /\ UNCHANGED qret
       \/ StoreFails /\ ReturnNone /\ UNCHANGED storeVars
    /\ UNCHANGED <<err, nConcepts, orphan, cancelledAt, ust, ures,
                   ci, qi, saved_count, current_order_index, total_questions>>
    /\ UNCHANGED auxVars

\* 4. Update status to generating (_update_quiz_status swallows a store
\* failure and its result is not read); 5. create one task per concept.
QSetGenerating ==
    /\ pc = "q_set_generating"
    /\ \/ StoreOk /\ ApplyWrite(PendingWrite)
       \/ StoreFails /\ UNCHANGED storeVars
    /\ pc' = "fanout"
    /\ ust' = [c \in 1..nConcepts |-> "waiting"]
    /\ ures' = [c \in 1..nConcepts |-> 0]
    /\ UNCHANGED <<err, nConcepts, orphan, cancelledAt, qret,
                   ci, qi, saved_count, current_order_index, total_questions>>
    /\ UNCHANGED auxVars

\* process_concept enters async with semaphore.  Tasks start in listing
\* order and the semaphore wakes its waiters first in, first out.
UnitStart(c) ==
    /\ pc = "fanout"
    /\ ust[c] = "waiting"
    /\ \A d \in 1..(c - 1) : ust[d] # "waiting"
    /\ SemaphoreFree
    /\ ust' = [ust EXCEPT ![c] = "running"]
    /\ UNCHANGED <<pc, err, storeVars, nConcepts, orphan, cancelledAt, failures,
                   ures, ci, qi, saved_count, current_order_index,
                   total_questions, qret>>
    /\ UNCHANGED auxVars

\* process_concept returns (questions, None), or ([], name) when the
\* generator returned nothing or raised; the semaphore is released.
UnitFinish(c) ==
    /\ pc = "fanout"
    /\ ust[c] = "running"
    /\ \E q \in 0..MaxQuestions : ures' = [ures EXCEPT ![c] = q]
    /\ ust' = [ust EXCEPT ![c] = "done"]
    /\ UNCHANGED <<pc, err, storeVars, nConcepts, orphan, cancelledAt, failures,
                   ci, qi, saved_count, current_order_index,
                   total_questions, qret>>
    /\ UNCHANGED auxVars

\* The position after the loop has moved to result nx.
EnterResult(nx) ==
    /\ ci' = nx
    /\ qi' = 0
    /\ saved_count' = 0
    /\ pc' = IF nx > NumUnits THEN "q_set_final" ELSE "save_q"

\* results = await asyncio.gather(*tasks), then the loop over results
\* up to the first _save_questions call.
Gather ==
    /\ pc = "fanout"
    /\ GatherReady
    /\ current_order_index' = 0
    /\ total_questions' = 0
    /\ EnterResult(NextResult(1))
    /\ UNCHANGED <<err, storeVars, nConcepts, orphan, cancelledAt, failures,
                   ust, ures, qret>>
    /\ UNCHANGED auxVars

\* The end of one iteration of the loop in _save_questions, sc being
\* saved_count after it: the next question, or the return of saved_count
\* and the next result.
AfterQuestion(sc) ==
    IF qi + 1 < ures[ci]
    THEN /\ pc' = "save_q"
         /\ qi' = qi + 1
         /\ saved_count' = sc
         /\ UNCHANGED <<ci, current_order_index, total_questions>>
    ELSE /\ current_order_index' = current_order_index + sc
         /\ total_questions' = total_questions + sc
         /\ EnterResult(NextResult(ci + 1))

\* Insert question record; a store failure (or an empty response) skips
\* the question.
SaveQuestion ==
    /\ pc = "save_q"
    /\ \/ StoreOk /\ ApplyWrite(PendingWrite)
          /\ pc' = "save_o"
          /\ UNCHANGED <<ci, qi, saved_count, current_order_index,
                         total_questions>>
       \/ StoreFails /\ UNCHANGED storeVars /\ AfterQuestion(saved_count)
    /\ UNCHANGED <<err, nConcepts, orphan, cancelledAt, ust, ures, qret>>
    /\ UNCHANGED auxVars

\* Insert question options; saved_count += 1 only when it succeeded.
SaveOptions ==
    /\ pc = "save_o"
    /\ \/ StoreOk /\ ApplyWrite(PendingWrite) /\ AfterQuestion(saved_count + 1)
       \/ StoreFails /\ UNCHANGED storeVars /\ AfterQuestion(saved_count)
    /\ UNCHANGED <<err, nConcepts, orphan, cancelledAt, ust, ures, qret>>
    /\ UNCHANGED auxVars

\* 6. Update quiz status and return quiz_id, or None when nothing was saved.
QSetFinal ==
    /\ pc = "q_set_final"
    /\ \/ StoreOk /\ ApplyWrite(PendingWrite)
       \/ StoreFails /\ UNCHANGED storeVars
    /\ qret' = IF total_questions > 0 THEN "id" ELSE "null"
    /\ pc' = "done"
    /\ UNCHANGED <<err, nConcepts, orphan, cancelledAt, ust, ures,
                   ci, qi, saved_count, current_order_index, total_questions>>
    /\ UNCHANGED auxVars

\* ------------------------------------------------------ process_document
\* asyncio.wait_for reaches DOCUMENT_PROCESSING_TIMEOUT: the inner task is
\* cancelled at its await (no handler of the inner task catches the
\* cancellation).  A store call already handed to the thread pool either
\* never takes effect or stays in the pool; an analysis in progress has
\* inserted some of its Concept rows.
Timeout ==
    /\ pc \in InnerPcs
    /\ cancelledAt' = pc
    /\ pc' = "fail_outer"
    /\ err' = MsgTimeout
    /\ orphan' \in {NoWrite, PendingWrite}
    /\ IF pc = "analyze"
       THEN nConcepts' \in nConcepts..MaxConcepts
       ELSE UNCHANGED nConcepts
    /\ UNCHANGED <<storeVars, quizVars, failures>>
    /\ UNCHANGED auxVars

\* The same handler without its try/except: the exception of the update
\* leaves process_document.
UpdateErrorLogged_Reraised == pc' = "raised"

\* _update_status_with_error catches the exception of its own update and
\* only logs it: the handler of process_document ends and the call returns.
UpdateErrorLogged == pc' = "done"

\* except asyncio.TimeoutError / except Exception: write failed.
WriteFailedOuter ==
    /\ pc = "fail_outer"
    /\ \/ StoreOk /\ ApplyWrite(PendingWrite) /\ pc' = "done"
       \/ StoreFails /\ UNCHANGED storeVars /\ UpdateErrorLogged
    /\ UNCHANGED <<err, quizVars, nConcepts, orphan, cancelledAt>>
    /\ UNCHANGED auxVars

\* The pool thread of an abandoned store call finishes the call.
OrphanLand ==
    /\ orphan # NoWrite
    /\ ApplyWrite(orphan)
    /\ orphan' = NoWrite
    /\ UNCHANGED <<pc, err, quizVars, nConcepts, cancelledAt, failures>>
    /\ UNCHANGED auxVars

\* Steps of the driver, of its failure handlers and of the pool.
DriverStep ==
    \/ FetchDocument
    \/ SetProcessing
    \/ Download
    \/ ExtractText
    \/ SaveText
    \/ Analyze
    \/ CountConcepts
    \/ SetCompleted
    \/ WriteFailedInner
    \/ WriteFailedOuter
    \/ OrphanLand

\* Steps of the quiz orchestrator up to the return of asyncio.gather.
FanoutStep ==
    \/ QGetDocument
    \/ QGetConcepts
    \/ QCreateQuiz
    \/ QSetGenerating
    \/ \E c \in DOMAIN ust : UnitStart(c)
    \/ \E c \in DOMAIN ust : UnitFinish(c)
    \/ Gather

\* Steps of the quiz orchestrator that persist the results.
PersistStep ==
    \/ SaveQuestion
    \/ SaveOptions
    \/ QSetFinal

\* Steps of the task and of the pool; the deadline is not one of them.
Step == DriverStep \/ FanoutStep \/ PersistStep

Next == Step \/ Timeout

Spec == Init /\ [][Next]_vars

\* The event loop runs every task that can run and the pool finishes every
\* call it was handed; nothing obliges the deadline to expire.
FairSpec == Spec /\ WF_vars(Step)

\* The run observed up to the moment asyncio.gather returns: the fan-out of
\* the generation units under the deadline, without the persistence of the
\* results that follows it.
NextFanout == DriverStep \/ FanoutStep \/ Timeout
FairFanoutSpec ==
    Init /\ [][NextFanout]_vars /\ WF_vars(DriverStep \/ FanoutStep)

\* --------------------------------------- AnalysisService.analyze_document
\* The analysis followed step by step while the driver awaits it: the loop
\* over the chunks and, for each chunk, the attempts of _process_chunk.
\*
\* A model response is a string over four kinds of character: the two
\* braces, the comma, "t" for a well-formed "topics" member and "x" for any
\* character of prose.  Code fences and brackets are not in the alphabet.
Chars == {"{", "}", ",", "t", "x"}
Responses == UNION {[1..n -> Chars] : n \in 0..MaxResponseLen}

\* str.find and str.rfind: the 0-based position of ch in text, or -1.
Find(text, ch) ==
    IF \E i \in DOMAIN text : text[i] = ch
    THEN (CHOOSE i \in DOMAIN text :
              text[i] = ch /\ \A j \in 1..(i - 1) : text[j] # ch) - 1
    ELSE -1
RFind(text, ch) ==
    IF \E i \in DOMAIN text : text[i] = ch
    THEN (CHOOSE i \in DOMAIN text :
              text[i] = ch /\ \A j \in (i + 1)..Len(text) : text[j] # ch) - 1
    ELSE -1

\* re.sub(r',\s*}', '}', json_str): every comma that stands right before a
\* closing brace is dropped.
RECURSIVE DropTrailingCommas(_)
DropTrailingCommas(json_str) ==
    IF json_str = << >> THEN << >>
    ELSE IF Len(json_str) >= 2 /\ json_str[1] = "," /\ json_str[2] = "}"
         THEN DropTrailingCommas(Tail(json_str))
         ELSE <<json_str[1]>> \o DropTrailingCommas(Tail(json_str))

\* raise ValueError("No JSON object found in response")
NoJson == <<"ValueError">>

\* _extract_and_clean_json: the slice from the first "{" to the last "}",
\* cleaned, or the ValueError when either brace is missing.
ExtractAndCleanJson(text) ==
    LET start_idx == Find(text, "{")
        end_idx == RFind(text, "}") + 1
    IN  IF start_idx = -1 \/ end_idx = 0
        THEN NoJson
        ELSE DropTrailingCommas(SubSeq(text, start_idx + 1, end_idx))

\* json.loads accepts, of the strings over Chars, the empty object and the
\* object with a topics member; it raises JSONDecodeError on the others.
JsonLoads(json_str) == json_str \in {<<"{", "}">>, <<"{", "t", "}">>}

\* An entry of events: an attempt's outcome, a backoff sleep (arg: its
\* seconds) or the save of the chunk (arg: the Concept rows inserted).  The
\* arg of an ok attempt is 1 when the parsed data has topics.
Ev(kind, arg) == [kind |-> kind, arg |-> arg]

\* for attempt in range(MAX_API_RETRIES + 1)
Attempts_OneMore == MAX_API_RETRIES + 2
Attempts == MAX_API_RETRIES + 1

\* await asyncio.sleep(2 ** attempt)
BackoffSeconds_Product == 2 * attempt
BackoffSeconds == 2 ^ attempt

\* The variables the analysis neither reads nor writes.
analysisRest == <<pc, err, storeVars, quizVars, orphan, cancelledAt,
                  extracted_text, saveVars, structVars,
                  functionVars>>

\* analyze_document has been called by the driver (step 5) with a text of
\* at least 50 characters, split into total_chunks chunks.
AnalysisInit ==
    /\ pc = "analyze"
    /\ err = "none"
    /\ docStatus = "processing"
    /\ docError = "none"
    /\ docText = TRUE
    /\ nConcepts = 0
    /\ quizStatus = "none"
    /\ questions = << >>
    /\ ust = << >>
    /\ ures = << >>
    /\ ci = 0
    /\ qi = 0
    /\ saved_count = 0
    /\ current_order_index = 0
    /\ total_questions = 0
    /\ qret = "none"
    /\ orphan = NoWrite
    /\ cancelledAt = "none"
    /\ failures = 0
    /\ extracted_text = MIN_TEXT_LENGTH
    /\ apc = "call"
    /\ total_chunks \in 1..MaxChunks
    /\ chunk_index = 0
    /\ attempt = 0
    /\ events = << >>
    /\ results = << >>
    /\ SaveIdle
    /\ JsonIdle /\ QualityIdle /\ GenIdle /\ ChunkIdle /\ StructIdle

\* The for loop of _process_chunk goes to its next iteration, or ends with
\* the chunk not processed.
NextAttempt ==
    IF attempt + 1 < Attempts
    THEN apc' = "call" /\ attempt' = attempt + 1
    ELSE apc' = "skipped" /\ UNCHANGED attempt

\* One of the three except clauses that log and go on: the clauses for the
\* two timeouts and the connection error sleep before the next attempt
\* (backoff), the clause for JSONDecodeError does not.
CaughtFailure(kind, backoff) ==
    /\ events' = Append(events, Ev(kind, 0))
    /\ IF backoff /\ attempt < MAX_API_RETRIES
       THEN apc' = "sleep" /\ UNCHANGED attempt
       ELSE NextAttempt

\* The except Exception clause if it logged like the other clauses.
RaiseOutOfAnalysis_LoggedOnly(kind) ==
    /\ events' = Append(events, Ev(kind, 0))
    /\ NextAttempt

\* except Exception: raise e, which analyze_document raises again.
RaiseOutOfAnalysis(kind) ==
    /\ events' = Append(events, Ev(kind, 0))
    /\ apc' = "raised"
    /\ UNCHANGED attempt

\* asyncio.wait_for raises asyncio.TimeoutError after CLAUDE_TIMEOUT_SECONDS.
CompletionTimeout ==
    /\ apc = "call"
    /\ CaughtFailure("timeout", TRUE)
    /\ UNCHANGED <<total_chunks, chunk_index, results, nConcepts, failures,
                   analysisRest>>

\* The client raises APITimeoutError or APIConnectionError.
CompletionConnectionError ==
    /\ apc = "call"
    /\ CaughtFailure("connection", TRUE)
    /\ UNCHANGED <<total_chunks, chunk_index, results, nConcepts, failures,
                   analysisRest>>

\* The completion returns a text block: clean and extract JSON, json.loads.
CompletionReturns ==
    /\ apc = "call"
    /\ \E text \in Responses :
          LET json_str == ExtractAndCleanJson(text)
          IN  IF json_str = NoJson
              THEN RaiseOutOfAnalysis("no_json")
              ELSE IF ~JsonLoads(json_str)
              THEN CaughtFailure("json_decode", FALSE)
              ELSE /\ events' = Append(events,
                                       Ev("ok", IF Len(json_str) = 3 THEN 1 ELSE 0))
                   /\ apc' = "save"
                   /\ UNCHANGED attempt
    /\ UNCHANGED <<total_chunks, chunk_index, results, nConcepts, failures,
                   analysisRest>>

\* Any other exception of the try block: an API status error, or a content
\* block that is not a TextBlock.
CompletionUnexpected ==
    /\ apc = "call"
    /\ RaiseOutOfAnalysis("unexpected")
    /\ UNCHANGED <<total_chunks, chunk_index, results, nConcepts, failures,
                   analysisRest>>

\* asyncio.sleep returns.
Backoff ==
    /\ apc = "sleep"
    /\ events' = Append(events, Ev("sleep", BackoffSeconds))
    /\ NextAttempt
    /\ UNCHANGED <<total_chunks, chunk_index, results, nConcepts, failures,
                   analysisRest>>

\* _save_structure inserts the topics and concepts of the parsed data, then
\* break; a store call of it that raises is an unexpected exception.
SaveStructure ==
    /\ apc = "save"
    /\ \/ /\ StoreOk
          /\ \E k \in 0..(MaxConcepts - nConcepts) :
                /\ events[Len(events)].arg = 0 => k = 0
                /\ nConcepts' = nConcepts + k
                /\ events' = Append(events, Ev("saved", k))
          /\ apc' = "saved"
          /\ UNCHANGED attempt
       \/ StoreFails /\ RaiseOutOfAnalysis("store_error") /\ UNCHANGED nConcepts
    /\ UNCHANGED <<total_chunks, chunk_index, results, analysisRest>>

\* _process_chunk has returned: the loop of analyze_document takes the next
\* chunk, or analyze_document returns.
NextChunk ==
    /\ apc \in {"saved", "skipped"}
    /\ results' = Append(results, apc)
    /\ IF chunk_index + 1 < total_chunks
       THEN /\ chunk_index' = chunk_index + 1
            /\ attempt' = 0
            /\ events' = << >>
            /\ apc' = "call"
       ELSE /\ apc' = "returned"
            /\ UNCHANGED <<chunk_index, attempt, events>>
    /\ UNCHANGED <<total_chunks, nConcepts, failures, analysisRest>>

\* The driver's handler around analyze_document: any exception of the
\* analysis becomes ValueError("AI analysis failed: ..."), which the except
\* ValueError clause of _process_document_internal records (WriteFailedInner).
AnalysisFailed ==
    /\ pc = "analyze"
    /\ apc = "raised"
    /\ RaiseValueError(MsgAnalysis)
    /\ UNCHANGED <<storeVars, quizVars, nConcepts, orphan, cancelledAt,
                   failures, auxVars>>

AnalysisNext ==
    \/ CompletionTimeout
    \/ CompletionConnectionError
    \/ CompletionReturns
    \/ CompletionUnexpected
    \/ Backoff
    \/ SaveStructure
    \/ NextChunk
    \/ AnalysisFailed
    \/ WriteFailedInner

AnalysisSpec == AnalysisInit /\ [][AnalysisNext]_vars

\* --------------------------- _create_question_object and _save_questions
\* One question followed from the parsed response of the question model to
\* its rows in the store.  An option is known by the position it had in
\* the response, which stands for its text and its explanation.
QuestionData == UNION {[1..n -> BOOLEAN] : n \in 0..MaxOptions}

\* raise ValueError (option count, or count of correct options)
Rejected == <<"ValueError">>

\* _create_question_object: the options of the GeneratedQuestion.
CreateQuestionObject(options_data) ==
    IF Len(options_data) # 4 THEN Rejected
    ELSE LET options == [i \in 1..4 |->
                            [option_text |-> i, option_index |-> i - 1,
                             is_correct |-> options_data[i],
                             explanation |-> i]]
             correct_count == Cardinality({i \in 1..4 : options[i].is_correct})
         IN  IF correct_count # 1 THEN Rejected ELSE options

\* random.shuffle(options_list): any order of the list.
Orders(n) == {p \in [1..n -> 1..n] : \A i, j \in 1..n : p[i] = p[j] => i = j}
Shuffled(list, p) == [i \in DOMAIN list |-> list[p[i]]]

\* next(new_idx for new_idx, opt in enumerate(options_list) if opt.is_correct)
CorrectAnswerIndex(list) ==
    (CHOOSE i \in DOMAIN list :
        list[i].is_correct /\ \A j \in 1..(i - 1) : ~list[j].is_correct) - 1

\* options_data: the rows of the question_options insert.
OptionsData(list) ==
    [i \in DOMAIN list |->
        [option_text |-> list[i].option_text, option_index |-> i - 1,
         is_correct |-> list[i].is_correct,
         explanation |-> list[i].explanation]]

\* The variables the handling of one question neither reads nor writes.
saveRest == <<pc, err, storeVars, quizVars, nConcepts, orphan, cancelledAt,
              extracted_text, structVars,
              analysisVars, functionVars>>

\* The run is at the first _save_questions call of a quiz whose one concept
\* returned one question; question_data is the response it was parsed from.
SaveInit ==
    /\ pc = "save_q"
    /\ err = "none"
    /\ docStatus = "completed"
    /\ docError = "none"
    /\ docText = TRUE
    /\ nConcepts = 1
    /\ quizStatus = "generating"
    /\ questions = << >>
    /\ ust = <<"done">>
    /\ ures = <<1>>
    /\ ci = 1
    /\ qi = 0
    /\ saved_count = 0
    /\ current_order_index = 0
    /\ total_questions = 0
    /\ qret = "none"
    /\ orphan = NoWrite
    /\ cancelledAt = "none"
    /\ failures = 0
    /\ extracted_text = MIN_TEXT_LENGTH
    /\ AnalysisIdle
    /\ JsonIdle /\ QualityIdle /\ GenIdle /\ ChunkIdle /\ StructIdle
    /\ spc = "create"
    /\ question_data \in QuestionData
    /\ question = << >>
    /\ options_list = << >>
    /\ question_row = << >>
    /\ option_rows = << >>

\* _create_question_object returns the question or raises.
CreateQuestion ==
    /\ spc = "create"
    /\ question' = CreateQuestionObject(question_data)
    /\ spc' = IF question' = Rejected THEN "rejected" ELSE "shuffle"
    /\ UNCHANGED <<question_data, options_list, question_row, option_rows,
                   failures, saveRest>>

\* options_list = list(question.options); random.shuffle(options_list)
Shuffle ==
    /\ spc = "shuffle"
    /\ \E p \in Orders(Len(question)) : options_list' = Shuffled(question, p)
    /\ spc' = "insert_q"
    /\ UNCHANGED <<question_data, question, question_row, option_rows,
                   failures, saveRest>>

\* Insert question record with the new correct answer index.
InsertQuestion ==
    /\ spc = "insert_q"
    /\ \/ /\ StoreOk
          /\ question_row' =
                 <<[correct_answer |-> CorrectAnswerIndex(options_list)]>>
          /\ spc' = "insert_o"
       \/ StoreFails /\ spc' = "handled" /\ UNCHANGED question_row
    /\ UNCHANGED <<question_data, question, options_list, option_rows,
                   saveRest>>

\* Insert question options with new shuffled indices; an exception is
\* logged and the loop goes on to the next question.
InsertOptions ==
    /\ spc = "insert_o"
    /\ \/ StoreOk /\ option_rows' = OptionsData(options_list)
       \/ StoreFails /\ UNCHANGED option_rows
    /\ spc' = "handled"
    /\ UNCHANGED <<question_data, question, options_list, question_row,
                   saveRest>>

SaveNext ==
    \/ CreateQuestion
    \/ Shuffle
    \/ InsertQuestion
    \/ InsertOptions

SaveSpec == SaveInit /\ [][SaveNext]_vars

\* ------------------------------------------------ POST /quizzes/generate
\* trigger_quiz_generation reads the document (a missing one is answered
\* 404) and hands generate_quiz_for_document to the background tasks without
\* looking at the status of the document and without a deadline.
ManualInit ==
    /\ pc = "q_get_doc"
    /\ err = "none"
    /\ docStatus \in {"pending", "processing", "completed", "failed"}
    /\ docError = "none"
    /\ docText \in BOOLEAN
    /\ nConcepts \in 0..MaxConcepts
    /\ quizStatus = "none"
    /\ questions = << >>
    /\ ust = << >>
    /\ ures = << >>
    /\ ci = 0
    /\ qi = 0
    /\ saved_count = 0
    /\ current_order_index = 0
    /\ total_questions = 0
    /\ qret = "none"
    /\ orphan = NoWrite
    /\ cancelledAt = "none"
    /\ failures = 0
    /\ extracted_text = 0
    /\ AnalysisIdle
    /\ SaveIdle
    /\ JsonIdle /\ QualityIdle /\ GenIdle /\ ChunkIdle /\ StructIdle

ManualNext == FanoutStep \/ PersistStep

ManualSpec == ManualInit /\ [][ManualNext]_vars

\* --------------------------------------- POST /process/{document_id} again
\* The endpoint hands process_document to the background tasks for whatever
\* document id it is given, without reading the document: the run below is
\* for a document an earlier run has left completed (with its text and a
\* Concept row) or failed (at the length check, or in the analysis).
ProcessedDocuments ==
    {[status |-> "completed", error |-> "none", text |-> TRUE, concepts |-> 1],
     [status |-> "failed", error |-> MsgShort, text |-> FALSE, concepts |-> 0],
     [status |-> "failed", error |-> MsgAnalysis, text |-> TRUE, concepts |-> 1]}

RerunInit ==
    /\ pc = "fetch"
    /\ err = "none"
    /\ \E doc \in ProcessedDocuments :
          /\ docStatus = doc.status
          /\ docError = doc.error
          /\ docText = doc.text
          /\ nConcepts = doc.concepts
    /\ quizStatus = "none"
    /\ questions = << >>
    /\ ust = << >>
    /\ ures = << >>
    /\ ci = 0
    /\ qi = 0
    /\ saved_count = 0
    /\ current_order_index = 0
    /\ total_questions = 0
    /\ qret = "none"
    /\ orphan = NoWrite
    /\ cancelledAt = "none"
    /\ failures = 0
    /\ extracted_text = 0
    /\ AnalysisIdle
    /\ SaveIdle
    /\ JsonIdle /\ QualityIdle /\ GenIdle /\ ChunkIdle /\ StructIdle

RerunSpec == RerunInit /\ [][Next]_vars

\* ------------------------------------- single calls of the pure functions
\* The variables of the run of the driver, which no single call touches.
runVars == <<pc, err, storeVars, quizVars, nConcepts, orphan, cancelledAt,
             extracted_text, structVars,
             failures>>

\* _extract_and_clean_json is called with any response text.
JsonInit ==
    /\ RunInit
    /\ AnalysisIdle /\ SaveIdle /\ QualityIdle /\ GenIdle /\ ChunkIdle
    /\ response_text \in Responses
    /\ extracted = NotCalled
    /\ parsed = NotCalled

\* The call returns the cleaned string or raises ValueError.
ExtractJson ==
    /\ extracted = NotCalled
    /\ extracted' = ExtractAndCleanJson(response_text)
    /\ UNCHANGED <<response_text, parsed, runVars, analysisVars, saveVars,
                   qualityVars, genVars, chunkVars>>

JsonNext == ExtractJson

JsonSpec == JsonInit /\ [][JsonNext]_vars

\* ---------------------- QuestionGenerator._parse_question_response
\* The patterns of _parse_question_response are raw strings with a doubled
\* backslash (r',\\s*}'): the regular expression reads a backslash followed
\* by any number of the letter s where that of _extract_and_clean_json
\* reads any run of whitespace.  The responses below are over Chars with
\* the backslash and the letter s added.
QuestionChars == Chars \cup {"\\", "s"}
QuestionResponses == UNION {[1..n -> QuestionChars] : n \in 0..MaxResponseLen}

\* The number of characters r',\\s*}' matches at the head of json_str (0: no
\* match): a comma, a backslash, the letters s that follow, a closing brace.
RECURSIVE LettersS(_)
LettersS(str) ==
    IF str # << >> /\ str[1] = "s" THEN 1 + LettersS(Tail(str)) ELSE 0
MatchAtHead(json_str) ==
    IF Len(json_str) >= 3 /\ json_str[1] = "," /\ json_str[2] = "\\"
    THEN LET k == LettersS(SubSeq(json_str, 3, Len(json_str)))
         IN  IF 3 + k <= Len(json_str) /\ json_str[3 + k] = "}"
             THEN 3 + k ELSE 0
    ELSE 0

\* re.sub(r',\\s*}', '}', json_str)
RECURSIVE DropEscapedCommas(_)
DropEscapedCommas(json_str) ==
    IF json_str = << >> THEN << >>
    ELSE LET m == MatchAtHead(json_str)
         IN  IF m > 0
             THEN <<"}">> \o DropEscapedCommas(SubSeq(json_str, m + 1,
                                                      Len(json_str)))
             ELSE <<json_str[1]>> \o DropEscapedCommas(Tail(json_str))

\* _parse_question_response up to its json.loads: the slice from the first
\* "{" to the last "}" after the two substitutions, or the ValueError.
ParseQuestionResponse(response) ==
    LET start_idx == Find(response, "{")
        end_idx == RFind(response, "}") + 1
    IN  IF start_idx = -1 \/ end_idx = 0
        THEN NoJson
        ELSE DropEscapedCommas(SubSeq(response, start_idx + 1, end_idx))

\* Both functions are called with the same response text.
ParseInit ==
    /\ RunInit
    /\ AnalysisIdle /\ SaveIdle /\ QualityIdle /\ GenIdle /\ ChunkIdle
    /\ response_text \in QuestionResponses
    /\ extracted = NotCalled
    /\ parsed = NotCalled

\* _parse_question_response hands json_str to json.loads, or raises.
ParseResponse ==
    /\ parsed = NotCalled
    /\ parsed' = ParseQuestionResponse(response_text)
    /\ UNCHANGED <<response_text, extracted, runVars, analysisVars, saveVars,
                   qualityVars, genVars, chunkVars>>

ParseNext == ExtractJson \/ ParseResponse

ParseSpec == ParseInit /\ [][ParseNext]_vars

\* ---------------------------- QuestionGenerator: the checks of a response
\* question_data as _parse_question_response returns it.  A string the code
\* only measures (the question text, an explanation, the hint) is known by
\* its length; an option text is a sequence of characters, since the code
\* also lower-cases it.
NoHint == -1
Lower(ch) ==
    CASE ch = "A" -> "a" [] ch = "B" -> "b" [] ch = "C" -> "c" [] OTHER -> ch
LowerText(t) == [i \in DOMAIN t |-> Lower(t[i])]

QuestionLens == {19, 20, 500, 501}
HintLens == {NoHint, 0, 9, 10}
\* The texts option i may have: one of its own, one too short, and one
\* that differs from the first option's own text by case only.
OwnLetter(i) == <<"c", "d", "e", "f", "g", "h", "k">>[i]
OptionTexts(i) == {<<"a", "b", OwnLetter(i)>>, <<"a", "b">>, <<"A", "B", "C">>}
Option(t, c, e) == [option_text |-> t, is_correct |-> c, explanation |-> e]

\* Four options: any texts, any is_correct flags, at most one explanation
\* too short.
FourOptions ==
    {[i \in 1..4 |-> Option(t[i], c[i], IF i = s THEN 9 ELSE 10)] :
        t \in [1..4 -> UNION {OptionTexts(i) : i \in 1..4}],
        c \in [1..4 -> BOOLEAN],
        s \in 0..4}
\* Another number of options, each well formed.
OtherOptions ==
    UNION {{[i \in 1..n |-> Option(<<"a", "b", OwnLetter(i)>>, c[i], 10)] :
               c \in [1..n -> BOOLEAN]} : n \in (0..MaxOptions) \ {4}}
Candidate(q, h, o) == [question |-> q, hint |-> h, options |-> o]
Candidates ==
    {Candidate(q, h, o) : q \in QuestionLens, h \in HintLens,
                           o \in {f \in FourOptions :
                                      \A i \in 1..4 :
                                          f[i].option_text \in OptionTexts(i)}}
        \cup {Candidate(20, NoHint, o) : o \in OtherOptions}

\* _validate_question_quality without the duplicate check.
ValidateQuestionQuality_NoDuplicateCheck(q) ==
    IF q.question < 20 \/ q.question > 500 THEN FALSE
    ELSE IF \E i \in DOMAIN q.options :
                \/ Len(q.options[i].option_text) < 3
                \/ q.options[i].explanation < 10
         THEN FALSE
    ELSE IF q.hint # NoHint /\ q.hint # 0 /\ q.hint < 10 THEN FALSE
    ELSE TRUE

\* _validate_question_quality.  "if question.hint and ..." passes over a
\* hint that is None and over a hint that is the empty string.
ValidateQuestionQuality(q) ==
    IF q.question < 20 \/ q.question > 500 THEN FALSE
    ELSE IF \E i \in DOMAIN q.options :
                \/ Len(q.options[i].option_text) < 3
                \/ q.options[i].explanation < 10
         THEN FALSE
    ELSE IF Cardinality({LowerText(q.options[i].option_text) :
                            i \in DOMAIN q.options}) # Len(q.options)
         THEN FALSE
    ELSE IF q.hint # NoHint /\ q.hint # 0 /\ q.hint < 10 THEN FALSE
    ELSE TRUE

\* One attempt of _generate_single_question from the parsed response on:
\* _create_question_object raises ValueError (caught, the loop goes on), or
\* the question is validated and returned, or the loop goes on.
AttemptVerdict(data) ==
    IF CreateQuestionObject([i \in DOMAIN data.options |->
                                data.options[i].is_correct]) = Rejected
    THEN "rejected"
    ELSE IF ValidateQuestionQuality(data) THEN "accepted" ELSE "rejected"

QualityInit ==
    /\ RunInit
    /\ AnalysisIdle /\ SaveIdle /\ JsonIdle /\ GenIdle /\ ChunkIdle
    /\ candidate \in Candidates
    /\ verdict = "none"

CheckQuality ==
    /\ verdict = "none"
    /\ verdict' = AttemptVerdict(candidate)
    /\ UNCHANGED <<candidate, runVars, analysisVars, saveVars, jsonVars,
                   genVars, chunkVars>>

QualityNext == CheckQuality

QualitySpec == QualityInit /\ [][QualityNext]_vars

\* ------------------------------- QuestionGenerator: one generation unit
\* The content lengths on both sides of each threshold.
ContentLengths == {0, 199, 200, 499, 500, 999, 1000}

Min(a, b) == IF a < b THEN a ELSE b

\* calculate_questions_per_concept with the thresholds taken inclusive.
CalculateQuestionsPerConcept_Inclusive(length, min_q, max_q) ==
    IF length <= 200 THEN min_q
    ELSE IF length <= 500 THEN Min(3, max_q)
    ELSE IF length <= 1000 THEN Min(4, max_q)
    ELSE max_q

\* calculate_questions_per_concept
CalculateQuestionsPerConcept(length, min_q, max_q) ==
    IF length < 200 THEN min_q
    ELSE IF length < 500 THEN Min(3, max_q)
    ELSE IF length < 1000 THEN Min(4, max_q)
    ELSE max_q

\* [x] * n
Repeat(x, n) == [i \in 1..n |-> x]

\* _get_difficulty_distribution with the medium questions last.
GetDifficultyDistribution_MediumLast(n) ==
    LET easy_count == n \div 3
        hard_count == n \div 3
        medium_count == n - easy_count - hard_count
    IN  Repeat("easy", easy_count) \o Repeat("hard", hard_count)
            \o Repeat("medium", medium_count)

\* _get_difficulty_distribution
GetDifficultyDistribution(n) ==
    CASE n = 1 -> <<"medium">>
      [] n = 2 -> <<"easy", "hard">>
      [] n = 3 -> <<"easy", "medium", "hard">>
      [] n = 4 -> <<"easy", "medium", "medium", "hard">>
      [] n = 5 -> <<"easy", "easy", "medium", "hard", "hard">>
      [] OTHER -> LET easy_count == n \div 3
                      hard_count == n \div 3
                      medium_count == n - easy_count - hard_count
                  IN  Repeat("easy", easy_count)
                          \o Repeat("medium", medium_count)
                          \o Repeat("hard", hard_count)

\* The variables one generation unit neither reads nor writes.
genRest == <<runVars, analysisVars, saveVars, jsonVars, qualityVars,
             chunkVars>>

\* process_concept is about to compute num_questions for a concept.
PlanInit ==
    /\ RunInit
    /\ AnalysisIdle /\ SaveIdle /\ JsonIdle /\ QualityIdle /\ ChunkIdle
    /\ gpc = "calculate"
    /\ content_length \in ContentLengths
    /\ min_questions \in 1..MaxPerConcept
    /\ max_questions \in 1..MaxPerConcept
    /\ num_questions = 0
    /\ difficulties = << >>
    /\ slot = 0
    /\ gattempt = 0
    /\ generated = << >>
    /\ glog = << >>

\* num_questions = calculate_questions_per_concept(...)
Calculate ==
    /\ gpc = "calculate"
    /\ num_questions' = CalculateQuestionsPerConcept(content_length,
                                                     min_questions,
                                                     max_questions)
    /\ gpc' = "distribute"
    /\ UNCHANGED <<content_length, min_questions, max_questions,
                   difficulties, slot, gattempt, generated, glog, genRest>>

\* difficulties = self._get_difficulty_distribution(num_questions); the loop
\* over the slots starts, or ends at once.
Distribute ==
    /\ gpc = "distribute"
    /\ difficulties' = GetDifficultyDistribution(num_questions)
    /\ IF difficulties' # << >>
       THEN gpc' = "call" /\ slot' = 1
       ELSE gpc' = "returned" /\ UNCHANGED slot
    /\ UNCHANGED <<content_length, min_questions, max_questions,
                   num_questions, gattempt, generated, glog, genRest>>

PlanNext == Calculate \/ Distribute

PlanSpec == PlanInit /\ [][PlanNext]_vars

\* generate_questions_for_concept, slot by slot.
GoodOptions == [i \in 1..4 |-> Option(<<"a", "b", OwnLetter(i)>>, i = 1, 10)]
\* The parsed responses a completion is followed with: a well-formed one,
\* one with a short question text, one with two correct options, one with
\* three options.
SampleCandidates ==
    {Candidate(20, NoHint, GoodOptions),
     Candidate(19, NoHint, GoodOptions),
     Candidate(20, NoHint, [GoodOptions EXCEPT ![2].is_correct = TRUE]),
     Candidate(20, NoHint, SubSeq(GoodOptions, 1, 3))}

\* What one attempt came to.
Outcome(kind, data) == [kind |-> kind, data |-> data]

\* range(max_retries + 1), if it were one attempt longer.
GenAttempts_OneMore == max_retries + 2
\* range(max_retries + 1)
GenAttempts == max_retries + 1

\* A generation unit called with num_questions question slots.
GenInit ==
    /\ RunInit
    /\ AnalysisIdle /\ SaveIdle /\ JsonIdle /\ QualityIdle /\ ChunkIdle
    /\ gpc = "distribute"
    /\ content_length = 0
    /\ min_questions = 0
    /\ max_questions = 0
    /\ num_questions \in 1..MaxSlots
    /\ difficulties = << >>
    /\ slot = 0
    /\ gattempt = 0
    /\ generated = << >>
    /\ glog = << >>

\* The attempt failed and was logged ("continue", or the end of the for
\* loop: return None).  Nothing sleeps between two attempts.
AttemptFailed(kind) ==
    /\ glog' = Append(glog, Outcome(kind, << >>))
    /\ IF gattempt + 1 < GenAttempts
       THEN gpc' = "call" /\ gattempt' = gattempt + 1
       ELSE gpc' = "slot_done" /\ UNCHANGED gattempt

planVars == <<content_length, min_questions, max_questions, num_questions,
              difficulties>>

\* await self.client.messages.create(...) has been waiting for
\* CLAUDE_TIMEOUT_SECONDS: nothing wraps the call in asyncio.wait_for, the
\* unit goes on waiting.
GenCompletionOverdue ==
    /\ gpc = "call"
    /\ gpc' = "overdue"
    /\ UNCHANGED <<planVars, slot, gattempt, generated, glog, genRest>>

\* The client raises (API error, connection error, its own timeout), or
\* the first content block is not text: except Exception.
GenCompletionRaises ==
    /\ gpc \in {"call", "overdue"}
    /\ \E kind \in {"api_error", "no_text"} : AttemptFailed(kind)
    /\ UNCHANGED <<planVars, slot, generated, genRest>>

\* The completion returns text: _parse_question_response raises, or the
\* parsed response goes through _create_question_object and
\* _validate_question_quality.
GenCompletionReturns ==
    /\ gpc \in {"call", "overdue"}
    /\ \/ AttemptFailed("json_error")
       \/ \E data \in SampleCandidates :
             IF AttemptVerdict(data) = "accepted"
             THEN /\ glog' = Append(glog, Outcome("accepted", data))
                  /\ gpc' = "slot_done"
                  /\ UNCHANGED gattempt
             ELSE AttemptFailed("rejected")
    /\ UNCHANGED <<planVars, slot, generated, genRest>>

\* _generate_single_question has returned: "if question:
\* questions.append(question)", then the next slot, or return questions.
CollectQuestion ==
    /\ gpc = "slot_done"
    /\ LET last == glog[Len(glog)]
       IN  IF last.kind = "accepted"
           THEN generated' = Append(generated,
                                    [slot |-> slot,
                                     difficulty_level |-> difficulties[slot],
                                     data |-> last.data])
           ELSE UNCHANGED generated
    /\ IF slot < Len(difficulties)
       THEN /\ slot' = slot + 1
            /\ gattempt' = 0
            /\ glog' = << >>
            /\ gpc' = "call"
       ELSE /\ gpc' = "returned"
            /\ UNCHANGED <<slot, gattempt, glog>>
    /\ UNCHANGED <<planVars, genRest>>

GenNext ==
    \/ Distribute
    \/ GenCompletionOverdue
    \/ GenCompletionRaises
    \/ GenCompletionReturns
    \/ CollectQuestion

GenSpec == GenInit /\ [][GenNext]_vars

\* ------------------------------------------ AnalysisService._chunk_text
\* A text is a sequence of characters: a letter, a sentence terminator, a
\* space and a newline.
TextChars == {"a", ".", " ", "\n"}
Texts == UNION {[1..n -> TextChars] : n \in 0..MaxTextLen}
IsSpace(ch) == ch \in {" ", "\n"}
IsTerminator(ch) == ch = "."

\* str.strip()
Strip(str) ==
    LET kept == {i \in DOMAIN str : ~IsSpace(str[i])}
    IN  IF kept = {} THEN << >>
        ELSE SubSeq(str,
                    CHOOSE i \in kept : \A j \in kept : i <= j,
                    CHOOSE i \in kept : \A j \in kept : i >= j)

\* str.split("\n\n")
RECURSIVE SplitParagraphs(_)
SplitParagraphs(str) ==
    LET seps == {i \in 1..(Len(str) - 1) : str[i] = "\n" /\ str[i + 1] = "\n"}
    IN  IF seps = {} THEN <<str>>
        ELSE LET i == CHOOSE k \in seps : \A j \in seps : k <= j
             IN  <<SubSeq(str, 1, i - 1)>>
                     \o SplitParagraphs(SubSeq(str, i + 2, Len(str)))

\* re.split(r'(?<=[.!?])\s+', text): the text is cut at every run of
\* whitespace that follows a terminator, and the run is dropped.
RECURSIVE ReSplit(_)
ReSplit(str) ==
    LET cuts == {i \in 2..Len(str) :
                    IsSpace(str[i]) /\ IsTerminator(str[i - 1])}
    IN  IF cuts = {} THEN <<str>>
        ELSE LET i == CHOOSE k \in cuts : \A j \in cuts : k <= j
                 after == {j \in i..Len(str) : ~IsSpace(str[j])}
                 next == IF after = {} THEN Len(str) + 1
                         ELSE CHOOSE k \in after : \A j \in after : k <= j
             IN  <<SubSeq(str, 1, i - 1)>>
                     \o ReSplit(SubSeq(str, next, Len(str)))

\* [s.strip() for s in sentences if s.strip()]
RECURSIVE StripAll(_)
StripAll(list) ==
    IF list = << >> THEN << >>
    ELSE (IF Strip(Head(list)) = << >> THEN << >> ELSE <<Strip(Head(list))>>)
             \o StripAll(Tail(list))

\* _split_into_sentences
SplitIntoSentences(str) == StripAll(ReSplit(str))

\* The two locals of the loops of _chunk_text.
Loop(list, cur) == [chunks |-> list, current_chunk |-> cur]

\* if current_chunk.strip(): chunks.append(current_chunk.strip())
Flushed(st) ==
    IF Strip(st.current_chunk) # << >>
    THEN Append(st.chunks, Strip(st.current_chunk))
    ELSE st.chunks

\* The body of the loop over sentences without the append of the chunk
\* that is full.
AddSentence_NoFlush(st, sentence, size) ==
    IF Len(st.current_chunk) + Len(sentence) + 1 > size
    THEN Loop(st.chunks, sentence)
    ELSE Loop(st.chunks,
              st.current_chunk
                  \o (IF st.current_chunk # << >> THEN <<" ">> ELSE << >>)
                  \o sentence)

\* The body of the loop over the sentences of a paragraph that is too long.
AddSentence(st, sentence, size) ==
    IF Len(st.current_chunk) + Len(sentence) + 1 > size
    THEN Loop(Flushed(st), sentence)
    ELSE Loop(st.chunks,
              st.current_chunk
                  \o (IF st.current_chunk # << >> THEN <<" ">> ELSE << >>)
                  \o sentence)

RECURSIVE AddSentences(_, _, _)
AddSentences(st, sentences, size) ==
    IF sentences = << >> THEN st
    ELSE AddSentences(AddSentence(st, Head(sentences), size),
                      Tail(sentences), size)

\* "adding this paragraph exceeds the limit", if the separator were left
\* out of the sum.
ExceedsLimit_NoSeparator(cur, paragraph, size) ==
    Len(cur) + Len(paragraph) > size

\* len(current_chunk) + len(paragraph) + 2 > chunk_size
ExceedsLimit(cur, paragraph, size) ==
    Len(cur) + Len(paragraph) + 2 > size

\* The body of the loop over paragraphs.
AddParagraph(st, raw, size) ==
    LET paragraph == Strip(raw)
    IN  IF paragraph = << >> THEN st
        ELSE IF ExceedsLimit(st.current_chunk, paragraph, size)
             THEN IF Len(paragraph) > size
                  THEN AddSentences(Loop(Flushed(st), << >>),
                                    SplitIntoSentences(paragraph), size)
                  ELSE Loop(Flushed(st), paragraph)
        ELSE Loop(st.chunks,
                  st.current_chunk
                      \o (IF st.current_chunk # << >> THEN <<"\n", "\n">>
                          ELSE << >>)
                      \o paragraph)

RECURSIVE AddParagraphs(_, _, _)
AddParagraphs(st, paragraphs, size) ==
    IF paragraphs = << >> THEN st
    ELSE AddParagraphs(AddParagraph(st, Head(paragraphs), size),
                       Tail(paragraphs), size)

\* _chunk_text
ChunkText(text, size) ==
    IF Len(text) <= size THEN <<text>>
    ELSE LET st == AddParagraphs(Loop(<< >>, << >>), SplitParagraphs(text),
                                 size)
         IN  IF Flushed(st) # << >> THEN Flushed(st) ELSE <<text>>

\* _chunk_text is called with any text and any chunk size.
ChunkInit ==
    /\ RunInit
    /\ AnalysisIdle /\ SaveIdle /\ JsonIdle /\ QualityIdle /\ GenIdle
    /\ full_text \in Texts
    /\ chunk_size \in 1..(MaxTextLen - 1)
    /\ chunks = NotChunked

\* chunks = self._chunk_text(text, chunk_size)
Chunk ==
    /\ chunks = NotChunked
    /\ chunks' = ChunkText(full_text, chunk_size)
    /\ UNCHANGED <<full_text, chunk_size, runVars, analysisVars, saveVars,
                   jsonVars, qualityVars, genVars>>

ChunkNext == Chunk

ChunkSpec == ChunkInit /\ [][ChunkNext]_vars

\* --------------------------------- AnalysisService._save_structure
\* analyze_document followed row by row: every attempt of _process_chunk,
\* every store call of _save_structure and the call of _log_usage.  tasks
\* holds one record per analyze_document call running on the document: one
\* in a run of the driver, two when the document is processed twice at the
\* same time.
\*
\* The parsed response: a list of topics, each with a name and a list of
\* concept names; "" stands for a missing or empty name.
TopicNames == {"T", "U", ""}
ConceptNames == {"c", ""}
ConceptLists == UNION {[1..n -> ConceptNames] : n \in 0..MaxTopicConcepts}
TopicData == [name : TopicNames, concepts : ConceptLists]
ParsedData == UNION {[1..n -> TopicData] : n \in 0..MaxTopics}

\* The responses drawn: up to MaxTopics topics for a single call, at most
\* one topic for each of two concurrent calls.
DataDrawn == {data \in ParsedData : Len(data) <= MaxTopics - Len(tasks) + 1}

\* The names of concept_rows: the concepts that have a name.
IsNamed(name) == name # ""
NamedConcepts(concepts) == SelectSeq(concepts, IsNamed)

\* The first topic of data at or after position i that has a name (0: none);
\* a topic without a name is skipped with a warning.
NextNamedTopic(data, i) ==
    IF \E j \in i..Len(data) : data[j].name # ""
    THEN CHOOSE j \in i..Len(data) :
             data[j].name # "" /\ \A m \in i..(j - 1) : data[m].name = ""
    ELSE 0

\* A call of analyze_document on a text of n chunks.
NewTask(n) ==
    [tpc |-> "call", total_chunks |-> n, chunk_index |-> 0, attempt |-> 0,
     data |-> << >>, t |-> 0, topic_id |-> 0, named |-> 0, lost |-> 0]

\* _process_chunk has returned: the next chunk, or analyze_document returns.
ChunkDone(tk) ==
    IF tk.chunk_index + 1 < tk.total_chunks
    THEN [tk EXCEPT !.tpc = "call", !.chunk_index = @ + 1, !.attempt = 0,
                    !.data = << >>, !.t = 0, !.topic_id = 0]
    ELSE [tk EXCEPT !.tpc = "returned", !.t = 0, !.topic_id = 0]

\* The except clauses that log and go on (the sleep before the next attempt
\* is not followed here).
RetryOrSkip(tk) ==
    IF tk.attempt < MAX_API_RETRIES
    THEN [tk EXCEPT !.tpc = "call", !.attempt = @ + 1, !.data = << >>,
                    !.t = 0, !.topic_id = 0]
    ELSE ChunkDone(tk)

\* except Exception: raise e.
Raised(tk) == [tk EXCEPT !.tpc = "raised"]

\* A store call of _save_structure outside its own try raises: if the
\* exception were one of those the attempt is retried on.
StoreErrorInSave_Retried(tk) == RetryOrSkip(tk)

\* A store call of _save_structure outside its own try raises: the
\* exception of run_db_operation is none of the three kinds _process_chunk
\* retries on, so the except Exception clause raises it again.
StoreErrorInSave(tk) == Raised(tk)

\* The loop over topics goes to the topic at or after position i, or ends
\* and _log_usage is called.
ToTopic(tk, i) ==
    LET j == NextNamedTopic(tk.data, i)
    IN  IF j = 0
        THEN [tk EXCEPT !.tpc = "log", !.t = 0, !.topic_id = 0]
        ELSE [tk EXCEPT !.tpc = "select", !.t = j, !.topic_id = 0]

\* topic_id is known: build concept_rows; with no named concept the loop
\* goes on (continue, or nothing to insert).
ToConcepts(tk, id) ==
    IF NamedConcepts(tk.data[tk.t].concepts) = << >>
    THEN ToTopic(tk, tk.t + 1)
    ELSE [tk EXCEPT !.tpc = "insert_concepts", !.topic_id = id]

\* The number of named concepts under named topics of data.
RECURSIVE NamedCount(_)
NamedCount(data) ==
    IF data = << >> THEN 0
    ELSE (IF data[1].name # "" THEN Len(NamedConcepts(data[1].concepts)) ELSE 0)
         + NamedCount(Tail(data))

\* The select by (document_id, name) returning no row whatever the table.
ExistingTopic_NeverFound(name) == {}

\* select id from topics where document_id = ... and name = ...
ExistingTopic(name) ==
    {i \in DOMAIN topics_table : topics_table[i].name = name}

\* A topics row; by and chunk tell which call inserted it for which chunk.
TopicRow(name, r) ==
    [name |-> name, by |-> r, chunk |-> tasks[r].chunk_index]

\* The concepts rows of one insert if a name the topic already has a row
\* for were left out.
ConceptRows_Deduplicated(r) ==
    LET tk == tasks[r]
        IsNew(name) ==
            /\ name # ""
            /\ ~\E i \in DOMAIN concepts_table :
                   /\ concepts_table[i].topic_id = tk.topic_id
                   /\ concepts_table[i].name = name
        names == SelectSeq(tk.data[tk.t].concepts, IsNew)
    IN  [i \in DOMAIN names |->
            [topic_id |-> tk.topic_id, name |-> names[i], by |-> r,
             chunk |-> tk.chunk_index]]

\* The concepts rows of one insert.
ConceptRows(r) ==
    LET tk == tasks[r]
        names == NamedConcepts(tk.data[tk.t].concepts)
    IN  [i \in DOMAIN names |->
            [topic_id |-> tk.topic_id, name |-> names[i], by |-> r,
             chunk |-> tk.chunk_index]]

\* The variables the analysis followed row by row neither reads nor writes.
structRest == <<pc, err, storeVars, quizVars, orphan, cancelledAt,
                extracted_text, analysisVars, saveVars, functionVars>>

\* analyze_document has been called by the driver on a text of one or more
\* chunks; the document has no topic yet.
StructInit ==
    /\ pc = "analyze"
    /\ err = "none"
    /\ docStatus = "processing"
    /\ docError = "none"
    /\ docText = TRUE
    /\ nConcepts = 0
    /\ quizStatus = "none"
    /\ questions = << >>
    /\ ust = << >>
    /\ ures = << >>
    /\ ci = 0
    /\ qi = 0
    /\ saved_count = 0
    /\ current_order_index = 0
    /\ total_questions = 0
    /\ qret = "none"
    /\ orphan = NoWrite
    /\ cancelledAt = "none"
    /\ failures = 0
    /\ extracted_text = MIN_TEXT_LENGTH
    /\ AnalysisIdle
    /\ SaveIdle
    /\ JsonIdle /\ QualityIdle /\ GenIdle /\ ChunkIdle
    /\ topics_table = << >>
    /\ concepts_table = << >>
    /\ llm_logs = << >>
    /\ \E n \in 1..MaxChunks : tasks = <<NewTask(n)>>

\* The completion times out, the connection fails or json.loads raises.
ChunkAttemptFails(r) ==
    /\ tasks[r].tpc = "call"
    /\ tasks' = [tasks EXCEPT ![r] = RetryOrSkip(@)]
    /\ UNCHANGED <<topics_table, concepts_table, llm_logs, nConcepts,
                   failures, structRest>>

\* Any other exception of the attempt before the save.
ChunkAttemptRaises(r) ==
    /\ tasks[r].tpc = "call"
    /\ tasks' = [tasks EXCEPT ![r] = Raised(@)]
    /\ UNCHANGED <<topics_table, concepts_table, llm_logs, nConcepts,
                   failures, structRest>>

\* The response is parsed: _save_structure starts with its first topic.
ChunkParsed(r) ==
    /\ tasks[r].tpc = "call"
    /\ \E data \in DataDrawn :
          tasks' = [tasks EXCEPT ![r] =
                       ToTopic([@ EXCEPT !.data = data,
                                         !.named = @ + NamedCount(data)], 1)]
    /\ UNCHANGED <<topics_table, concepts_table, llm_logs, nConcepts,
                   failures, structRest>>

\* 1. Check if topic already exists for this document.
SelectTopic(r) ==
    /\ tasks[r].tpc = "select"
    /\ LET tk == tasks[r]
           found == ExistingTopic(tk.data[tk.t].name)
       IN  \/ /\ StoreOk
              /\ IF found = {}
                 THEN tasks' = [tasks EXCEPT ![r].tpc = "insert_topic"]
                 ELSE \E id \in found :
                          tasks' = [tasks EXCEPT ![r] = ToConcepts(@, id)]
           \/ /\ StoreFails
              /\ tasks' = [tasks EXCEPT ![r] = StoreErrorInSave(@)]
    /\ UNCHANGED <<topics_table, concepts_table, llm_logs, nConcepts,
                   structRest>>

\* The insert as an upsert on (document_id, name): no row is added when one
\* with the name is there.
TopicsAfterInsert_Upsert(name, r) ==
    IF ExistingTopic(name) # {} THEN topics_table
    ELSE Append(topics_table, TopicRow(name, r))

\* Insert New Topic: the table has no constraint on (document_id, name).
TopicsAfterInsert(name, r) == Append(topics_table, TopicRow(name, r))

\* The insert of the topic returns the new row or raises.
InsertTopic(r) ==
    /\ tasks[r].tpc = "insert_topic"
    /\ LET tk == tasks[r]
       IN  \/ /\ StoreOk
              /\ topics_table' = TopicsAfterInsert(tk.data[tk.t].name, r)
              /\ tasks' = [tasks EXCEPT ![r] = ToConcepts(@, Len(topics_table'))]
           \/ /\ StoreFails
              /\ tasks' = [tasks EXCEPT ![r] = StoreErrorInSave(@)]
              /\ UNCHANGED topics_table
    /\ UNCHANGED <<concepts_table, llm_logs, nConcepts, structRest>>

\* Insert Concepts: one insert of all concept_rows of the topic; its
\* exception is logged inside _save_structure and the loop goes on.
InsertConcepts(r) ==
    /\ tasks[r].tpc = "insert_concepts"
    /\ LET tk == tasks[r]
       IN  \/ /\ StoreOk
              /\ concepts_table' = concepts_table \o ConceptRows(r)
              /\ tasks' = [tasks EXCEPT ![r] = ToTopic(@, tk.t + 1)]
           \/ /\ StoreFails
              /\ UNCHANGED concepts_table
              /\ tasks' = [tasks EXCEPT ![r] =
                              ToTopic([@ EXCEPT !.lost =
                                          @ + Len(ConceptRows(r))], tk.t + 1)]
    /\ nConcepts' = Len(concepts_table')
    /\ UNCHANGED <<topics_table, llm_logs, structRest>>

\* _log_usage if it let the exception of its insert out.
UsageNotLogged_Raised(tk) == StoreErrorInSave(tk)

\* _log_usage catches the exception of its insert and logs a warning.
UsageNotLogged(tk) == ChunkDone(tk)

\* Log Usage, then break: the chunk is processed.
LogUsage(r) ==
    /\ tasks[r].tpc = "log"
    /\ \/ /\ StoreOk
          /\ llm_logs' = Append(llm_logs,
                                [by |-> r, chunk |-> tasks[r].chunk_index])
          /\ tasks' = [tasks EXCEPT ![r] = ChunkDone(@)]
       \/ /\ StoreFails
          /\ UNCHANGED llm_logs
          /\ tasks' = [tasks EXCEPT ![r] = UsageNotLogged(@)]
    /\ UNCHANGED <<topics_table, concepts_table, nConcepts, structRest>>

StructNext ==
    \E r \in DOMAIN tasks :
        \/ ChunkAttemptFails(r)
        \/ ChunkAttemptRaises(r)
        \/ ChunkParsed(r)
        \/ SelectTopic(r)
        \/ InsertTopic(r)
        \/ InsertConcepts(r)
        \/ LogUsage(r)

StructSpec == StructInit /\ [][StructNext]_vars

\* POST /process/{document_id} twice for the same document: two
\* analyze_document calls, each on a text of one chunk, whose store calls
\* interleave at their awaits.
RaceInit ==
    /\ pc = "analyze"
    /\ err = "none"
    /\ docStatus = "processing"
    /\ docError = "none"
    /\ docText = TRUE
    /\ nConcepts = 0
    /\ quizStatus = "none"
    /\ questions = << >>
    /\ ust = << >>
    /\ ures = << >>
    /\ ci = 0
    /\ qi = 0
    /\ saved_count = 0
    /\ current_order_index = 0
    /\ total_questions = 0
    /\ qret = "none"
    /\ orphan = NoWrite
    /\ cancelledAt = "none"
    /\ failures = 0
    /\ extracted_text = MIN_TEXT_LENGTH
    /\ AnalysisIdle
    /\ SaveIdle
    /\ JsonIdle /\ QualityIdle /\ GenIdle /\ ChunkIdle
    /\ topics_table = << >>
    /\ concepts_table = << >>
    /\ llm_logs = << >>
    /\ tasks = <<NewTask(1), NewTask(1)>>

RaceSpec == RaceInit /\ [][StructNext]_vars

\* ---------------------------------------------------------------- claims
\* The run is over: process_document has returned and the pool holds no
\* call of it any more.
RunOver == pc = "done" /\ orphan = NoWrite

\* The quiz orchestrator is running, or was running when the deadline
\* cancelled the task.
QuizPhase == pc \in QuizPcs \/ cancelledAt \in QuizPcs

\* C1: once Document.status is completed, no step taken while the quiz
\* orchestrator runs (or after the deadline expired during it) moves the
\* status away from completed.
C1_CompletedStaysDuringQuiz ==
    [][(QuizPhase /\ docStatus = "completed") => docStatus' = "completed"]_vars

\* C2: a run whose deadline expired ends with status failed and the
\* timed-out message (stated for runs in which no store call failed).
C2_TimeoutEndsFailed ==
    (timedOut /\ RunOver /\ failures = 0 /\ docStatus # "absent")
        => (docStatus = "failed" /\ docError = MsgTimeout)

\* C3: after the deadline handler has written failed, no store write of the
\* run takes effect any more.
C3_NoWriteAfterTimeoutFailed ==
    [][(timedOut /\ pc = "done" /\ failures = 0) => UNCHANGED storeVars]_vars

\* C4: when the document row exists and no store call failed, a finished
\* run leaves status completed or failed.
C4_RunEndsTerminal ==
    (RunOver /\ failures = 0 /\ docStatus # "absent")
        => docStatus \in {"completed", "failed"}

\* C5: generation_status only moves pending -> generating ->
\* completed | failed (a Quiz row is created at pending).
QuizTransition(a, b) ==
    \/ a = b
    \/ a = "none" /\ b = "pending"
    \/ a = "pending" /\ b = "generating"
    \/ a = "generating" /\ b \in {"completed", "failed"}
C5_QuizStatusFollowsMachine == [][QuizTransition(quizStatus, quizStatus')]_vars

\* C6: when the run is over, a Quiz row it created is completed or failed
\* (stated for runs in which no store call failed and the insert of the
\* Quiz row had returned before any cancellation).
C6_QuizEndsTerminal ==
    (RunOver /\ failures = 0 /\ quizStatus # "none" /\ cancelledAt # "q_create")
        => quizStatus \in {"completed", "failed"}

\* C7: after generation ran to its end and wrote its final status, the
\* status is completed exactly when a Question row of the quiz exists.
C7_CompletedIffQuestionPersisted ==
    (qret # "none" /\ quizStatus \in {"completed", "failed"})
        => (quizStatus = "completed" <=> Len(questions) >= 1)

\* C8: generate_quiz_for_document returns a quiz id exactly when the
\* persisted generation_status is completed.
C8_ReturnsIdIffCompleted ==
    qret # "none" => (qret = "id" <=> quizStatus = "completed")

\* C9: at most MAX_CONCURRENT_GENERATIONS units are in flight, and every
\* waiting unit is eventually admitted.
Waiting(c) == c \in DOMAIN ust /\ ust[c] = "waiting"
Admitted(c) == c \in DOMAIN ust /\ ust[c] # "waiting"
C9_AtMostThreeAndAdmitted ==
    /\ [](Running <= MAX_CONCURRENT_GENERATIONS)
    /\ \A c \in 1..MaxConcepts : Waiting(c) ~> Admitted(c)

\* C9 (amended): at most MAX_CONCURRENT_GENERATIONS units are in flight,
\* and every waiting unit is eventually admitted unless the deadline of the
\* document pipeline cancels the generation.
C9_AtMostThreeAndAdmittedUnlessCancelled ==
    /\ [](Running <= MAX_CONCURRENT_GENERATIONS)
    /\ \A c \in 1..MaxConcepts : Waiting(c) ~> (Admitted(c) \/ timedOut)

\* All semaphore slots are taken and a further concept is queued.
C9_Witness == Running = MAX_CONCURRENT_GENERATIONS /\ \E c \in DOMAIN ust : ust[c] = "waiting"

\* C10: the results are collected only after every unit has returned, one
\* result per concept; a returned unit keeps its result, and a unit that
\* returns the failure marker changes no sibling.
UnitsAllReturned ==
    ci > 0 => /\ \A c \in DOMAIN ust : ust[c] = "done"
              /\ Len(ures) = nConcepts
UnitStepLocal ==
    \A c \in DOMAIN ust :
        /\ ust[c] = "done" => (ust'[c] = "done" /\ ures'[c] = ures[c])
        /\ (ust[c] = "running" /\ ust'[c] = "done" /\ ures'[c] = 0)
              => \A d \in DOMAIN ust \ {c} :
                     ust'[d] = ust[d] /\ ures'[d] = ures[d]
C10_EveryUnitYieldsOneResult == []UnitsAllReturned /\ [][UnitStepLocal]_vars

\* The results were collected with one unit failed and another succeeded.
C10_Witness ==
    /\ ci > 0
    /\ \E c, d \in DOMAIN ust : ures[c] = 0 /\ ures[d] > 0

\* The Question rows of concept c, in the order they were inserted.
ConceptsWritten == {questions[i].concept : i \in DOMAIN questions}

\* C11: a Question row exists only after every generation unit has
\* returned, and the rows are in the listing order of their concepts,
\* whatever the order in which the units returned.
C11_RowsAfterAllUnitsInListingOrder ==
    /\ Len(questions) > 0 => \A c \in DOMAIN ust : ust[c] = "done"
    /\ \A i, j \in DOMAIN questions :
           i < j => questions[i].concept <= questions[j].concept

\* Rows of two concepts are written, with a concept between them whose unit
\* returned the failure marker.
C11_Witness ==
    /\ Cardinality(ConceptsWritten) >= 2
    /\ \E c \in DOMAIN ust : ures[c] = 0 /\
           \E a, b \in ConceptsWritten : a < c /\ c < b

\* The order_index values of the Question rows, in insertion order.
OrderIndexes == [i \in DOMAIN questions |-> questions[i].order_index]

\* C12: after persistence the order_index values of the Question rows are
\* 0..N-1 in the order the rows were committed, also when the insert of a
\* question failed and the question was skipped (stated for runs that were
\* not cancelled and in which every row received its options).
C12_OrderIndexContiguous ==
    (qret # "none" /\ ~timedOut
       /\ \A i \in DOMAIN questions : questions[i].nopts = 4)
        => \A i \in DOMAIN questions : OrderIndexes[i] = i - 1

\* C14: once _save_questions has finished handling a question, its Question
\* row has exactly 4 QuestionOption rows (stated for runs that were not
\* cancelled; the last row is still being handled while its options insert
\* is awaited).
C14_QuestionHasFourOptions ==
    ~timedOut =>
        \A i \in DOMAIN questions :
            (i < Len(questions) \/ pc # "save_o") => questions[i].nopts = 4

\* C19: after the analysis returned normally, the driver fails the document
\* with the no-concepts message only when no Concept row exists, and goes on
\* to the completed update only when one exists.
C19_NoConceptsIffZero ==
    /\ (pc = "fail_inner" /\ err = MsgNoConcepts) => nConcepts = 0
    /\ pc = "set_completed" => nConcepts > 0

\* The document was completed and had a Concept row when
\* generate_quiz_for_document checked (neither changes during the call).
QuizAllowed == docStatus = "completed" /\ nConcepts > 0

\* C20: a Quiz row is created only for a completed document with at least
\* one Concept; otherwise the call returns null with no Quiz or Question row
\* created and no generation unit started.
C20_QuizOnlyForCompletedWithConcepts ==
    /\ quizStatus # "none" => QuizAllowed
    /\ (pc = "done" /\ ~QuizAllowed) =>
           /\ qret = "null"
           /\ quizStatus = "none"
           /\ questions = << >>
           /\ ust = << >>

\* The call returned for a document that has Concept rows but is not
\* completed, every store call having succeeded.
C20_Witness ==
    /\ pc = "done"
    /\ docStatus # "completed"
    /\ nConcepts > 0
    /\ failures = 0

\* The outcomes of the attempts made on the current chunk, in order.
AttemptKinds == {"timeout", "connection", "json_decode", "no_json",
                 "unexpected", "ok"}
RetryableKinds == {"timeout", "connection", "json_decode"}
IsAttempt(e) == e.kind \in AttemptKinds
AttemptsMade == SelectSeq(events, IsAttempt)
KindsOf(evs) == [i \in DOMAIN evs |-> evs[i].kind]

\* The step is the third retryable failure of a chunk.
ThirdRetryableFailure ==
    /\ apc = "call"
    /\ Len(AttemptsMade) = MAX_API_RETRIES
    /\ \E kind \in RetryableKinds : events' = Append(events, Ev(kind, 0))
\* The step is the loop of analyze_document going on after a skipped chunk.
AfterSkippedChunk == apc = "skipped" /\ apc' # "skipped"

\* C15: a chunk gets at most MAX_API_RETRIES + 1 attempts; its third
\* retryable failure, of whatever kinds the three are, ends the chunk as
\* skipped without raising; after a skipped chunk the next chunk is
\* started, or the analysis returns normally when it was the last one.
C15_ThreeAttemptsThenSkipped ==
    /\ [](Len(AttemptsMade) <= MAX_API_RETRIES + 1)
    /\ [][ThirdRetryableFailure => apc' = "skipped"]_vars
    /\ [][AfterSkippedChunk =>
              /\ results' = Append(results, "skipped")
              /\ IF chunk_index + 1 < total_chunks
                 THEN /\ apc' = "call"
                      /\ chunk_index' = chunk_index + 1
                      /\ attempt' = 0
                 ELSE apc' = "returned"]_vars

\* The analysis returned normally although its first chunk was skipped
\* after three failures, its second chunk having been saved.
C15_Witness ==
    /\ apc = "returned"
    /\ Len(results) >= 2
    /\ results[1] = "skipped"
    /\ results[2] = "saved"

\* The completion of the current chunk timed out twice, then succeeded.
TimedOutTwiceThenOk == KindsOf(AttemptsMade) = <<"timeout", "timeout", "ok">>

\* C16: when the completion times out on the first and second attempts and
\* succeeds on the third, the chunk has had exactly two backoff sleeps, of
\* 1 s after the first timeout and 2 s after the second, both before the
\* successful attempt, and its data is saved (the save is awaited next and,
\* unless a store call fails, done).
C16_TwoSleepsThenSaved ==
    TimedOutTwiceThenOk =>
        /\ SubSeq(events, 1, 5) = <<Ev("timeout", 0), Ev("sleep", 1),
                                    Ev("timeout", 0), Ev("sleep", 2),
                                    events[5]>>
        /\ events[5].kind = "ok"
        /\ \A i \in 6..Len(events) : events[i].kind # "sleep"
        /\ \/ apc = "save" /\ Len(events) = 5
           \/ Len(events) = 6 /\ events[6].kind = "saved"
           \/ apc = "raised" /\ failures > 0

\* The chunk was saved, with Concept rows, on the third attempt.
C16_Witness ==
    /\ TimedOutTwiceThenOk
    /\ Len(events) = 6
    /\ events[6].kind = "saved"
    /\ events[6].arg > 0

\* The number of attempts made on the current chunk before entry i.
AttemptsBefore(i) ==
    Cardinality({j \in 1..(i - 1) : events[j].kind \in AttemptKinds})

\* C17: whenever a retryable failure of an attempt is followed by another
\* attempt on the chunk, a backoff sleep of 2^attempt seconds lies between
\* them, for each of the three kinds of failure.
C17_BackoffBetweenAttempts ==
    \A i \in DOMAIN events :
        (events[i].kind \in RetryableKinds /\ (i < Len(events) \/ apc = "call"))
            => /\ i < Len(events)
               /\ events[i + 1] = Ev("sleep", 2 ^ AttemptsBefore(i))

\* C18: a response without any JSON object never makes the analysis raise.
C18_NoJsonNeverAborts ==
    \A i \in DOMAIN events : events[i].kind = "no_json" => apc # "raised"

\* The (text, is_correct, explanation) triples of a list of options.
Triples(list) ==
    {<<list[i].option_text, list[i].is_correct, list[i].explanation>> :
        i \in DOMAIN list}
CorrectRows == {i \in DOMAIN option_rows : option_rows[i].is_correct}

\* What C13 requires of the rows of a question whose options were inserted.
ShuffleKept ==
    /\ Cardinality(CorrectRows) = 1
    /\ \A i \in CorrectRows :
           question_row[1].correct_answer = option_rows[i].option_index
    /\ Len(option_rows) = 4
    /\ {option_rows[i].option_index : i \in DOMAIN option_rows} = 0..3
    /\ Triples(option_rows) = Triples(question)

\* C13: every Question row that _save_questions has finished with has
\* exactly one option row with is_correct, correct_answer equal to that
\* row's option_index, the option_index values 0..3 once each, and the
\* triples of the generated question.
C13_ShuffleInvariant ==
    (spc = "handled" /\ question_row # << >>) => ShuffleKept

\* C13, for the questions whose options insert succeeded.
C13_ShuffleKeptWhenOptionsInserted ==
    (spc = "handled" /\ option_rows # << >>) => ShuffleKept

\* C21: process_document never lets an exception reach its caller: after
\* every failure of a step, the failure of the status update that records
\* a failure included, the task is still inside the call, in one of its
\* handlers, or has returned.
C21_NeverPropagates == pc \in InnerPcs \cup {"fail_outer", "done"}

\* The call returned although the update that was to record the deadline
\* or the unexpected error itself failed: the document is not failed.
C21_Witness ==
    /\ pc = "done"
    /\ err \in {MsgTimeout, MsgUnexpected}
    /\ failures > 0
    /\ orphan = NoWrite
    /\ docStatus \notin {"failed", "absent"}

\* The exceptions _process_chunk does not catch: its except Exception
\* clause raises them again.
AbortingKinds == {"unexpected", "no_json", "store_error"}
AnalysisAborted == apc = "raised"

\* C30: once a chunk has raised an exception that is not a timeout, a
\* connection error or a JSON decode error, no further attempt is made and
\* no later chunk is taken (the analysis stays where it was), the driver
\* gets the exception (its next step is the handler with "AI analysis
\* failed"), the handler's update, when the store accepts it, leaves the
\* document failed with that message, and the Concept rows saved from
\* earlier chunks stay.
C30_UnexpectedAbortsAnalysis ==
    [][/\ (~AnalysisAborted /\ AnalysisAborted')
            => events'[Len(events')].kind \in AbortingKinds
       /\ (Len(events') > Len(events)
               /\ events'[Len(events')].kind \in AbortingKinds)
            => AnalysisAborted'
       /\ AnalysisAborted
            => /\ UNCHANGED <<analysisVars, nConcepts>>
               /\ pc \in {"analyze", "fail_inner", "done"}
               /\ pc = "analyze"
                    => pc' = "fail_inner" /\ err' = MsgAnalysis
               /\ (pc = "fail_inner" /\ failures' = failures)
                    => /\ pc' = "done"
                       /\ docStatus' = "failed"
                       /\ docError' = MsgAnalysis]_vars

\* The second chunk raised a store error after the first chunk had saved
\* concepts; the run is over, the document failed, the concepts are kept.
C30_Witness ==
    /\ AnalysisAborted
    /\ pc = "done"
    /\ chunk_index = 1
    /\ events[Len(events)].kind = "store_error"
    /\ results = <<"saved">>
    /\ nConcepts > 0
    /\ docStatus = "failed"
    /\ docError = MsgAnalysis

\* No "{" of the text has a "}" somewhere after it.
NoBraceSpan(t) ==
    ~\E i, j \in DOMAIN t : i < j /\ t[i] = "{" /\ t[j] = "}"

\* C28: for a text in which no "{" is followed later by a "}" (a text
\* whose only "}" comes before its first "{" included) the call raises the
\* malformed-response error and never returns a string.
C28_NoBraceSpanRaises ==
    (extracted # NotCalled /\ NoBraceSpan(response_text))
        => extracted = NoJson

\* What C23 requires of an accepted question, the hint aside.
CorrectOptions(q) == {i \in DOMAIN q.options : q.options[i].is_correct}
WellFormed(q) ==
    /\ Len(q.options) = 4
    /\ Cardinality(CorrectOptions(q)) = 1
    /\ q.question >= 20 /\ q.question <= 500
    /\ \A i \in DOMAIN q.options :
           /\ Len(q.options[i].option_text) >= 3
           /\ q.options[i].explanation >= 10
    /\ \A i, j \in DOMAIN q.options :
           i # j => LowerText(q.options[i].option_text)
                        # LowerText(q.options[j].option_text)

\* C23 as stated: a question is accepted if and only if it has exactly 4
\* options, exactly 1 correct, a text of 20 to 500 characters, option texts
\* of at least 3 and explanations of at least 10 characters, no two option
\* texts equal ignoring case, and no hint or a hint of at least 10
\* characters; otherwise it is rejected.
C23_AcceptedIffWellFormed ==
    verdict # "none" =>
        (verdict = "accepted" <=>
            (WellFormed(candidate)
                /\ (candidate.hint = NoHint \/ candidate.hint >= 10)))

\* C23 amended: the same, a hint that is the empty string counting as no
\* hint.
C23_AcceptedIffWellFormedOrEmptyHint ==
    verdict # "none" =>
        /\ verdict \in {"accepted", "rejected"}
        /\ verdict = "accepted" <=>
              (WellFormed(candidate)
                  /\ (candidate.hint \in {NoHint, 0} \/ candidate.hint >= 10))

\* A question was rejected only because two of its option texts differ by
\* case alone.
C23_Witness ==
    /\ verdict = "rejected"
    /\ Len(candidate.options) = 4
    /\ Cardinality(CorrectOptions(candidate)) = 1
    /\ candidate.question = 500
    /\ candidate.hint = 10
    /\ \A i \in 1..4 : /\ Len(candidate.options[i].option_text) = 3
                        /\ candidate.options[i].explanation = 10
    /\ LowerText(candidate.options[2].option_text)
           = candidate.options[1].option_text

\* How many entries of a distribution have difficulty d.
CountOf(list, d) == Cardinality({i \in DOMAIN list : list[i] = d})
Rank(d) == CASE d = "easy" -> 1 [] d = "medium" -> 2 [] d = "hard" -> 3
Tabulated ==
    <<(<<"medium">>), (<<"easy", "hard">>), (<<"easy", "medium", "hard">>),
      (<<"easy", "medium", "medium", "hard">>),
      (<<"easy", "easy", "medium", "hard", "hard">>)>>
Planned == gpc \notin {"calculate", "distribute"}

\* C24: for every count >= 1 the distribution has count entries in the
\* order easy, medium, hard; it is the tabulated list for counts 1 to 5 and
\* has floor(count/3) easy, floor(count/3) hard and the rest medium entries
\* for count >= 6.
C24_DistributionByCount ==
    (Planned /\ num_questions >= 1) =>
        /\ Len(difficulties) = num_questions
        /\ \A i, j \in DOMAIN difficulties :
               i < j => Rank(difficulties[i]) <= Rank(difficulties[j])
        /\ num_questions <= 5 => difficulties = Tabulated[num_questions]
        /\ num_questions >= 6 =>
               /\ CountOf(difficulties, "easy") = num_questions \div 3
               /\ CountOf(difficulties, "hard") = num_questions \div 3
               /\ CountOf(difficulties, "medium")
                      = num_questions - 2 * (num_questions \div 3)

\* A count of 7: two easy, three medium, two hard.
C24_Witness ==
    /\ Planned
    /\ num_questions = 7
    /\ difficulties
          = <<"easy", "easy", "medium", "medium", "medium", "hard", "hard">>

\* The value C25 tabulates for each range of content lengths.
TabulatedCount ==
    /\ content_length < 200 => num_questions = min_questions
    /\ (content_length >= 200 /\ content_length < 500)
           => num_questions = Min(3, max_questions)
    /\ (content_length >= 500 /\ content_length < 1000)
           => num_questions = Min(4, max_questions)
    /\ content_length >= 1000 => num_questions = max_questions
Calculated == gpc # "calculate"

PassedValidation(q) ==
    WellFormed(q) /\ (q.hint \in {NoHint, 0} \/ q.hint >= 10)
SlotFailed == gpc = "slot_done" /\ glog[Len(glog)].kind # "accepted"

\* C22: a generation unit never raises and never sleeps (it is always at
\* one of its own steps, and an attempt is followed at once by the next
\* attempt or the end of the slot); no slot gets more than 3 completion
\* attempts; a slot ends without a question only after 3 failed attempts
\* and then adds nothing; the list holds at most num_questions questions,
\* each of which passed validation, in the order of the slots and with
\* the difficulty of its slot.
C22_BestEffortGeneration ==
    /\ [](/\ gpc \in {"distribute", "call", "overdue", "slot_done",
                       "returned"}
          /\ Len(glog) <= 3
          /\ SlotFailed => Len(glog) = 3
          /\ Len(generated) <= num_questions
          /\ \A k \in DOMAIN generated :
                 /\ PassedValidation(generated[k].data)
                 /\ generated[k].slot \in DOMAIN difficulties
                 /\ generated[k].difficulty_level
                        = difficulties[generated[k].slot]
          /\ \A k, l \in DOMAIN generated :
                 k < l => generated[k].slot < generated[l].slot)
    /\ [][/\ gpc \in {"call", "overdue"}
               => gpc' \in {"call", "overdue", "slot_done"}
          /\ SlotFailed => generated' = generated
          /\ generated' # generated
               => /\ gpc = "slot_done"
                  /\ Len(generated') = Len(generated) + 1
                  /\ SubSeq(generated', 1, Len(generated)) = generated]_vars

\* A unit of three slots returned the questions of its first and third
\* slot: the attempts on the second slot were exhausted.
C22_Witness ==
    /\ gpc = "returned"
    /\ num_questions = 3
    /\ Len(generated) = 2
    /\ generated[1].slot = 1
    /\ generated[2].slot = 3

\* C29: no completion call is still awaited once it has been pending for
\* 60 seconds, in the question generator as in the analysis: its own
\* timeout has abandoned it.
C29_NoCallOutlivesItsTimeout == gpc # "overdue" /\ apc # "overdue"

\* The chunk holds one sentence: no whitespace of it follows a terminator.
SingleSentence(chunk) ==
    /\ Strip(chunk) # << >>
    /\ ~\E i \in 2..Len(chunk) :
           IsSpace(chunk[i]) /\ IsTerminator(chunk[i - 1])
WithinSize(chunk) == Len(chunk) <= chunk_size \/ SingleSentence(chunk)
Chunked == chunks # NotChunked
Blank(str) == Strip(str) = << >>

\* C26 as stated: for any text and any chunk size every chunk has at most
\* chunk_size characters unless it is a single sentence that alone is
\* longer.
C26_ChunksWithinSize ==
    Chunked => \A k \in DOMAIN chunks : WithinSize(chunks[k])

\* C26 amended: the same for every text that has a character other than
\* whitespace; a text of whitespace only is returned whole.
C26_ChunksWithinSizeUnlessBlank ==
    Chunked =>
        IF Blank(full_text)
        THEN chunks = <<full_text>>
        ELSE \A k \in DOMAIN chunks : WithinSize(chunks[k])

\* A text of three paragraphs was cut into a chunk of two paragraphs and
\* a chunk of one.
C26_Witness ==
    /\ Chunked
    /\ Len(chunks) = 2
    /\ chunks[1] = <<"a", "\n", "\n", "a">>
    /\ Len(chunks[1]) = chunk_size
    /\ Len(full_text) = 7

\* The characters of a text that are not whitespace, in order.
NotSpace(ch) == ~IsSpace(ch)
RECURSIVE Concat(_)
Concat(list) ==
    IF list = << >> THEN << >> ELSE Head(list) \o Concat(Tail(list))
Content(str) == SelectSeq(str, NotSpace)

\* C27: the chunks, concatenated in order, have the non-whitespace
\* characters of the text in the same order, none dropped, repeated or
\* moved; a second call on the same input returns the same chunks.
C27_ChunksKeepContent ==
    Chunked =>
        /\ Content(Concat(chunks)) = Content(full_text)
        /\ ChunkText(full_text, chunk_size) = chunks

\* A paragraph longer than the chunk size was cut into its sentences, two
\* of which share a chunk.
C27_Witness ==
    /\ Chunked
    /\ full_text = <<".", " ", ".", " ", ".">>
    /\ chunk_size = 3
    /\ chunks = <<(<<".", " ", ".">>), (<<".">>)>>

\* C31: a run of process_document on a document that is completed or
\* failed never moves the status from completed or failed to processing.
C31_TerminalNeverBackToProcessing ==
    [][(docStatus \in {"completed", "failed"})
           => (docStatus' # "processing")]_vars

\* The step is the end of a failure handler of the driver: the update of
\* _update_status_with_error has returned or raised.
FailureRecorded == pc \in {"fail_inner", "fail_outer"} /\ pc' = "done"

\* C36: the extracted text is persisted before the analysis starts (it is
\* in the store at every later await of the run), and the update with which
\* a failure handler records a failure changes nothing but status and
\* error_message: extracted_text, the Concept rows and the rows of the quiz
\* are as they were, and no step of the run removes a Concept row.
C36_FailureKeepsTextAndRows ==
    /\ [](pc \in (InnerPcs \ {"fetch", "set_processing", "download", "extract",
                             "save_text", "fail_inner"}) => docText)
    /\ [][FailureRecorded
            => UNCHANGED <<docText, nConcepts, quizStatus, questions>>]_vars
    /\ [][nConcepts' >= nConcepts /\ (docText => docText')]_vars

\* The deadline expired during the analysis, which had inserted Concept
\* rows: the document is failed with the message of the deadline, its text
\* and the rows are still there.
C36_Witness ==
    /\ pc = "done"
    /\ cancelledAt = "analyze"
    /\ docStatus = "failed"
    /\ docError = MsgTimeout
    /\ docText
    /\ nConcepts > 0

\* The step writes status completed.
WritesCompleted == docStatus # "completed" /\ docStatus' = "completed"

\* C39: the write of status completed is the update of step 6 (awaited, or
\* left in the pool by the deadline), which the run reaches only after its
\* update to processing returned, after it persisted an extracted text of
\* at least 50 characters and after it counted a Concept row; the write
\* clears error_message, and status completed never stands with a message.
C39_CompletedAfterAllSteps ==
    /\ [](docStatus = "completed" => docError = "none")
    /\ [][WritesCompleted
            => /\ pc = "set_completed" \/ cancelledAt = "set_completed"
               /\ docStatus \in {"processing", "failed"}
               /\ docStatus = "failed" => timedOut
               /\ docText
               /\ extracted_text >= MIN_TEXT_LENGTH
               /\ nConcepts > 0
               /\ docError' = "none"]_vars

\* The run ended with the document completed, its text of 50 characters
\* persisted, no store call having failed and no deadline having expired.
C39_Witness ==
    /\ pc = "done"
    /\ docStatus = "completed"
    /\ docError = "none"
    /\ extracted_text = MIN_TEXT_LENGTH
    /\ docText
    /\ nConcepts > 0
    /\ failures = 0
    /\ ~timedOut

\* Both calls have returned or raised.
BothCalled == extracted # NotCalled /\ parsed # NotCalled

\* C37: for every response the question generator's parsing hands
\* json.loads the string _extract_and_clean_json returns (and raises when
\* it raises), so that a response whose only defect is a trailing comma
\* before a closing brace is parsed.
C37_ParsesWhatExtractJsonReturns ==
    BothCalled =>
        /\ parsed = extracted
        /\ (extracted # NoJson /\ JsonLoads(extracted))
              => (parsed # NoJson /\ JsonLoads(parsed))

\* Two rows of table topics inserted by the same call have the same name.
SameRunDuplicate ==
    \E i, j \in DOMAIN topics_table :
        /\ i < j
        /\ topics_table[i].name = topics_table[j].name
        /\ topics_table[i].by = topics_table[j].by

\* The rows of table concepts inserted for chunk c.
ConceptsOfChunk(c) == {i \in DOMAIN concepts_table : concepts_table[i].chunk = c}

\* The step is call r inserting the concepts of its current topic.
ConceptsInserted(r) ==
    tasks[r].tpc = "insert_concepts" /\ concepts_table' # concepts_table

\* C32: in a single run no two Topic rows created by the run have the same
\* name, whether the name comes in several chunks or several times in one
\* chunk, and the concepts of a topic are inserted under the one row that
\* has its name.
C32_OneTopicRowPerName ==
    /\ [](~SameRunDuplicate)
    /\ [][\A r \in DOMAIN tasks :
              ConceptsInserted(r) =>
                  \A i \in (DOMAIN concepts_table') \ (DOMAIN concepts_table) :
                      topics_table[concepts_table'[i].topic_id].name
                          = tasks[r].data[tasks[r].t].name]_vars

\* The second chunk named topic T twice, the first chunk had named it too:
\* one row T, under which the concepts of all three are.
C32_Witness ==
    /\ Len(tasks) = 1
    /\ tasks[1].tpc = "returned"
    /\ tasks[1].chunk_index = 1
    /\ Len(tasks[1].data) = 2
    /\ tasks[1].data[1].name = "T"
    /\ tasks[1].data[2].name = "T"
    /\ Len(topics_table) = 1
    /\ ConceptsOfChunk(0) # {}
    /\ Cardinality(ConceptsOfChunk(1)) >= 2
    /\ \A i \in DOMAIN concepts_table : concepts_table[i].topic_id = 1

\* The step is call r getting the answer of its insert of a topic.
TopicInsertReturned(r) ==
    /\ tasks[r].tpc = "insert_topic"
    /\ tasks'[r].tpc # "insert_topic"
    /\ failures' = failures

\* C33: a call that found a topic name absent inserts its row whatever the
\* table holds by the time of the insert (no lock, no upsert), so that two
\* concurrent runs can leave two Topic rows of the same name.
C33_InsertAfterAbsentUnconditional ==
    [][\A r \in DOMAIN tasks :
           TopicInsertReturned(r) =>
               topics_table' =
                   Append(topics_table,
                          TopicRow(tasks[r].data[tasks[r].t].name, r))]_vars

\* Two rows of the same name, one of each run.
C33_Witness ==
    \E i, j \in DOMAIN topics_table :
        /\ i < j
        /\ topics_table[i].name = topics_table[j].name
        /\ topics_table[i].by # topics_table[j].by

\* analyze_document has returned.
AnalysisReturned == tasks # << >> /\ tasks[1].tpc = "returned"

UsageInsertFailed(r) == tasks[r].tpc = "log" /\ failures' > failures

\* C35: when the insert of the usage row fails, the rows saved for the
\* chunk stay, the chunk is not attempted again, nothing is raised, and the
\* next chunk is started (or the analysis returns after the last one).
C35_UsageFailureKeepsChunk ==
    [][\A r \in DOMAIN tasks :
           UsageInsertFailed(r) =>
               /\ UNCHANGED <<topics_table, concepts_table>>
               /\ IF tasks[r].chunk_index + 1 < tasks[r].total_chunks
                  THEN /\ tasks'[r].tpc = "call"
                       /\ tasks'[r].chunk_index = tasks[r].chunk_index + 1
                       /\ tasks'[r].attempt = 0
                  ELSE /\ tasks'[r].tpc = "returned"
                       /\ tasks'[r].attempt = tasks[r].attempt]_vars

\* The usage row of the first chunk is missing, the concepts of the first
\* chunk are in the table, and the second chunk was processed after it.
C35_Witness ==
    /\ AnalysisReturned
    /\ tasks[1].chunk_index = 1
    /\ ConceptsOfChunk(0) # {}
    /\ ConceptsOfChunk(1) # {}
    /\ ~\E i \in DOMAIN llm_logs : llm_logs[i].chunk = 0
    /\ \E i \in DOMAIN llm_logs : llm_logs[i].chunk = 1

\* Call r has written a row for the chunk it is working on.
WroteRows(r) ==
    \/ \E i \in DOMAIN topics_table :
           /\ topics_table[i].by = r
           /\ topics_table[i].chunk = tasks[r].chunk_index
    \/ \E i \in DOMAIN concepts_table :
           /\ concepts_table[i].by = r
           /\ concepts_table[i].chunk = tasks[r].chunk_index

\* C38: no further attempt of a chunk starts once the save of the chunk
\* has written a row, and from every step of the save the only way back
\* to the completion call is the next chunk.
C38_NoRetryAfterSaveBegan ==
    [][\A r \in DOMAIN tasks :
           /\ tasks'[r].attempt > tasks[r].attempt => ~WroteRows(r)
           /\ (tasks[r].tpc \in {"select", "insert_topic", "insert_concepts",
                                 "log"}
                  /\ tasks'[r].tpc = "call")
                 => /\ tasks'[r].chunk_index = tasks[r].chunk_index + 1
                    /\ tasks'[r].attempt = 0]_vars

\* A store call of the save raised after rows of the chunk were written,
\* on the second attempt of the chunk: the analysis raised, nothing was
\* attempted again.
C38_Witness ==
    /\ Len(tasks) = 1
    /\ tasks[1].tpc = "raised"
    /\ tasks[1].attempt = 1
    /\ tasks[1].t > 0
    /\ failures > 0
    /\ WroteRows(1)

====
